---- MODULE Spec2Model ----
(***************************************************************************)
(* A model of the formenc codec: the path parser (path.go), the struct tag *)
(* cache (tags.go), the decode engine (decode.go) and the encode engine.   *)
(*                                                                         *)
(* Go strings are modelled as sequences of one-character strings, so that  *)
(* parsing, rendering, escaping and numeral conversion are computed        *)
(* character by character, the way the code computes them.                 *)
(***************************************************************************)
EXTENDS Integers, Sequences, FiniteSets, TLC

VARIABLES
    pc,       \* position of the running call
    arg,      \* the v handed to Unmarshal: "nil", "value" (a T, no pointer),
              \* "nilptr" ((*T)(nil)) or "ptr" (a pointer to target)
    argT,     \* the T of v: type name of the value the decode target points to
    data,     \* the []byte handed to Unmarshal
    values,   \* url.Values built by url.ParseQuery: pairs in input order
    todo,     \* keys of values the range loop has not visited yet
    curPath,  \* path of the key the range loop is at
    curVals,  \* values of that key still to assign
    target,   \* the value the decode target points to
    err,      \* result of Unmarshal: "nil", "error", "InvalidUnmarshalError"
              \* or "panic"
    applied,  \* history: the (key, value) pairs handed to assign, in order
    srcT,     \* type name of the value handed to Marshal
    src,      \* the value handed to Marshal
    out,      \* the bytes Marshal returned
    merr,     \* result of Marshal: "nil", "error" or "panic"
    cache,    \* structTagCache: type name -> stored tags
    gpc,      \* goroutine -> position inside tags()
    gtype,    \* goroutine -> record type it asked for
    gtags,    \* goroutine -> tags it derived / returned
    derived   \* history: type name -> number of times its tags were derived

vars == <<pc, arg, argT, data, values, todo, curPath, curVals, target, err, applied,
          srcT, src, out, merr, cache, gpc, gtype, gtags, derived>>

-----------------------------------------------------------------------------
(* Strings *)

Digits == <<"0", "1", "2", "3", "4", "5", "6", "7", "8", "9">>

LowerCase == <<"a", "b", "c", "d", "e", "f", "g", "h", "i", "j", "k", "l", "m",
               "n", "o", "p", "q", "r", "s", "t", "u", "v", "w", "x", "y", "z">>

UpperCase == <<"A", "B", "C", "D", "E", "F", "G", "H", "I", "J", "K", "L", "M",
               "N", "O", "P", "Q", "R", "S", "T", "U", "V", "W", "X", "Y", "Z">>

\* position of c in the sequence cs, 0 when absent
PosIn(cs, c) == IF \E i \in 1..Len(cs) : cs[i] = c
                THEN CHOOSE i \in 1..Len(cs) : cs[i] = c
                ELSE 0

\* the 256 bytes in order: Bytes[n + 1] is the one-character string of byte
\* n, written xHH where the byte has no character to write it with
Bytes ==
    <<
      "x00", "x01", "x02", "x03", "x04", "x05", "x06", "x07",
      "x08", "\t", "\n", "x0B", "\f", "\r", "x0E", "x0F",
      "x10", "x11", "x12", "x13", "x14", "x15", "x16", "x17",
      "x18", "x19", "x1A", "x1B", "x1C", "x1D", "x1E", "x1F",
      " ", "!", "\"", "#", "$", "%", "&", "'",
      "(", ")", "*", "+", ",", "-", ".", "/",
      "0", "1", "2", "3", "4", "5", "6", "7",
      "8", "9", ":", ";", "<", "=", ">", "?",
      "@", "A", "B", "C", "D", "E", "F", "G",
      "H", "I", "J", "K", "L", "M", "N", "O",
      "P", "Q", "R", "S", "T", "U", "V", "W",
      "X", "Y", "Z", "[", "\\", "]", "^", "_",
      "x60", "a", "b", "c", "d", "e", "f", "g",
      "h", "i", "j", "k", "l", "m", "n", "o",
      "p", "q", "r", "s", "t", "u", "v", "w",
      "x", "y", "z", "{", "|", "}", "~", "x7F",
      "x80", "x81", "x82", "x83", "x84", "x85", "x86", "x87",
      "x88", "x89", "x8A", "x8B", "x8C", "x8D", "x8E", "x8F",
      "x90", "x91", "x92", "x93", "x94", "x95", "x96", "x97",
      "x98", "x99", "x9A", "x9B", "x9C", "x9D", "x9E", "x9F",
      "xA0", "xA1", "xA2", "xA3", "xA4", "xA5", "xA6", "xA7",
      "xA8", "xA9", "xAA", "xAB", "xAC", "xAD", "xAE", "xAF",
      "xB0", "xB1", "xB2", "xB3", "xB4", "xB5", "xB6", "xB7",
      "xB8", "xB9", "xBA", "xBB", "xBC", "xBD", "xBE", "xBF",
      "xC0", "xC1", "xC2", "xC3", "xC4", "xC5", "xC6", "xC7",
      "xC8", "xC9", "xCA", "xCB", "xCC", "xCD", "xCE", "xCF",
      "xD0", "xD1", "xD2", "xD3", "xD4", "xD5", "xD6", "xD7",
      "xD8", "xD9", "xDA", "xDB", "xDC", "xDD", "xDE", "xDF",
      "xE0", "xE1", "xE2", "xE3", "xE4", "xE5", "xE6", "xE7",
      "xE8", "xE9", "xEA", "xEB", "xEC", "xED", "xEE", "xEF",
      "xF0", "xF1", "xF2", "xF3", "xF4", "xF5", "xF6", "xF7",
      "xF8", "xF9", "xFA", "xFB", "xFC", "xFD", "xFE", "xFF">>

ByteOf == [c \in {Bytes[i] : i \in 1..256} |-> CHOOSE n \in 0..255 : Bytes[n + 1] = c]

\* the byte value of a character
CharCode(c) == ByteOf[c]

\* the character of a byte
CharOfCode(n) == Bytes[n + 1]

RECURSIVE StrLess(_, _)
\* byte-wise lexicographic order, as Go compares strings
StrLess(a, b) ==
    IF b = <<>> THEN FALSE
    ELSE IF a = <<>> THEN TRUE
    ELSE IF Head(a) = Head(b) THEN StrLess(Tail(a), Tail(b))
    ELSE CharCode(Head(a)) < CharCode(Head(b))

\* strings.IndexByte, 1-based; 0 stands for Go's -1
IndexByte(s, c) ==
    IF \E i \in 1..Len(s) : s[i] = c
    THEN CHOOSE i \in 1..Len(s) : s[i] = c /\ \A j \in 1..(i - 1) : s[j] # c
    ELSE 0

\* unicode.IsSpace, as the bytes of the UTF-8 encoding of each white-space
\* character: tab, line feed, vertical tab, form feed, carriage return,
\* space, U+0085, U+00A0, U+1680, U+2000 to U+200A, U+2028, U+2029, U+202F,
\* U+205F and U+3000
WhiteSpace ==
    {<<"\t">>, <<"\n">>, <<"x0B">>, <<"\f">>, <<"\r">>, <<" ">>,
     <<"xC2", "x85">>, <<"xC2", "xA0">>, <<"xE1", "x9A", "x80">>,
     <<"xE2", "x80", "xA8">>, <<"xE2", "x80", "xA9">>, <<"xE2", "x80", "xAF">>,
     <<"xE2", "x81", "x9F">>, <<"xE3", "x80", "x80">>}
    \cup {<<"xE2", "x80", CharOfCode(n)>> : n \in 128..138}

RECURSIVE TrimLeft(_)
\* strings.TrimLeftFunc(s, unicode.IsSpace)
TrimLeft(s) ==
    IF \E w \in WhiteSpace : Len(w) <= Len(s) /\ SubSeq(s, 1, Len(w)) = w
    THEN LET w == CHOOSE w \in WhiteSpace : Len(w) <= Len(s) /\ SubSeq(s, 1, Len(w)) = w
         IN TrimLeft(SubSeq(s, Len(w) + 1, Len(s)))
    ELSE s

RECURSIVE TrimRight(_)
\* strings.TrimRightFunc(s, unicode.IsSpace)
TrimRight(s) ==
    IF \E w \in WhiteSpace :
          Len(w) <= Len(s) /\ SubSeq(s, Len(s) - Len(w) + 1, Len(s)) = w
    THEN LET w == CHOOSE w \in WhiteSpace :
                     Len(w) <= Len(s) /\ SubSeq(s, Len(s) - Len(w) + 1, Len(s)) = w
         IN TrimRight(SubSeq(s, 1, Len(s) - Len(w)))
    ELSE s

\* mutant: nothing is trimmed
TrimSpace_None(s) == s

\* strings.TrimSpace
TrimSpace(s) == TrimRight(TrimLeft(s))

RECURSIVE Split(_, _)
\* strings.Split(s, sep) for a one-character separator
Split(s, sep) ==
    LET i == IndexByte(s, sep)
    IN IF i = 0 THEN <<s>>
       ELSE <<SubSeq(s, 1, i - 1)>> \o Split(SubSeq(s, i + 1, Len(s)), sep)

-----------------------------------------------------------------------------
(* path.go *)

NamedSeg(k) == [Key |-> k, Index |-> FALSE]
IndexSeg == [Key |-> <<>>, Index |-> TRUE]

RECURSIVE parseKeyLoop(_, _)
\* the loop of parseKey: key is the unread rest, path the segments so far
parseKeyLoop(key, path) ==
    IF Len(key) = 0 THEN [err |-> FALSE, path |-> path]
    ELSE
      LET i == IndexByte(key, "[")
      IN IF i = 0 THEN [err |-> FALSE, path |-> Append(path, NamedSeg(key))]
         ELSE
           LET path1 == IF i > 1
                        THEN Append(path, NamedSeg(SubSeq(key, 1, i - 1)))
                        ELSE path
               rest == SubSeq(key, i + 1, Len(key))
               j == IndexByte(rest, "]")
           IN IF j = 0 THEN [err |-> TRUE, path |-> <<>>]
              ELSE
                LET part == SubSeq(rest, 1, j - 1)
                    path2 == IF part = <<>>
                             THEN Append(path1, IndexSeg)
                             ELSE Append(path1, NamedSeg(part))
                IN parseKeyLoop(SubSeq(rest, j + 1, Len(rest)), path2)

\* mutant: the syntax error is dropped
parseKey_NoError(key) == [err |-> FALSE, path |-> parseKeyLoop(key, <<>>).path]

\* parseKey
parseKey(key) == parseKeyLoop(key, <<>>)

-----------------------------------------------------------------------------
(* net/url as used by Unmarshal and Marshal *)

IsHex(c) == PosIn(Digits, c) > 0
            \/ c \in {"a", "b", "c", "d", "e", "f", "A", "B", "C", "D", "E", "F"}

HexVal(c) == IF PosIn(Digits, c) > 0 THEN PosIn(Digits, c) - 1
             ELSE IF PosIn(UpperCase, c) > 0 THEN 9 + PosIn(UpperCase, c)
             ELSE 9 + PosIn(LowerCase, c)

HexDigit(n) == IF n < 10 THEN Digits[n + 1] ELSE UpperCase[n - 9]

\* url.shouldEscape in the mode of a query component: the characters
\* url.QueryEscape leaves alone
Unreserved(c) == PosIn(Digits, c) > 0 \/ PosIn(UpperCase, c) > 0
                 \/ PosIn(LowerCase, c) > 0 \/ c \in {"-", "_", ".", "~"}

RECURSIVE QueryEscape(_)
QueryEscape(s) ==
    IF s = <<>> THEN <<>>
    ELSE LET c == Head(s)
             e == IF Unreserved(c) THEN <<c>>
                  ELSE IF c = " " THEN <<"+">>
                  ELSE <<"%", HexDigit(CharCode(c) \div 16), HexDigit(CharCode(c) % 16)>>
         IN e \o QueryEscape(Tail(s))

RECURSIVE BadEscape(_)
\* a '%' that is not followed by two hexadecimal digits
BadEscape(s) ==
    IF s = <<>> THEN FALSE
    ELSE IF Head(s) = "%"
         THEN IF Len(s) < 3 \/ ~IsHex(s[2]) \/ ~IsHex(s[3]) THEN TRUE
              ELSE BadEscape(SubSeq(s, 4, Len(s)))
    ELSE BadEscape(Tail(s))

RECURSIVE Unescaped(_)
Unescaped(s) ==
    IF s = <<>> THEN <<>>
    ELSE IF Head(s) = "%"
         THEN <<CharOfCode(16 * HexVal(s[2]) + HexVal(s[3]))>>
              \o Unescaped(SubSeq(s, 4, Len(s)))
    ELSE IF Head(s) = "+" THEN <<" ">> \o Unescaped(Tail(s))
    ELSE <<Head(s)>> \o Unescaped(Tail(s))

\* url.QueryUnescape
QueryUnescape(s) ==
    IF BadEscape(s) THEN [err |-> TRUE, s |-> <<>>]
    ELSE [err |-> FALSE, s |-> Unescaped(s)]

RECURSIVE parseQueryLoop(_, _, _)
\* the loop of url.ParseQuery over the '&'-separated parts: the first error
\* is kept and the remaining parts are still read
parseQueryLoop(parts, pairs, bad) ==
    IF parts = <<>> THEN [err |-> bad, pairs |-> pairs]
    ELSE
      LET part == Head(parts)
          i == IndexByte(part, "=")
          rawK == IF i = 0 THEN part ELSE SubSeq(part, 1, i - 1)
          rawV == IF i = 0 THEN <<>> ELSE SubSeq(part, i + 1, Len(part))
          k == QueryUnescape(rawK)
          v == QueryUnescape(rawV)
      IN IF IndexByte(part, ";") > 0 THEN parseQueryLoop(Tail(parts), pairs, TRUE)
         ELSE IF part = <<>> THEN parseQueryLoop(Tail(parts), pairs, bad)
         ELSE IF k.err \/ v.err THEN parseQueryLoop(Tail(parts), pairs, TRUE)
         ELSE parseQueryLoop(Tail(parts), Append(pairs, [k |-> k.s, v |-> v.s]), bad)

\* url.ParseQuery: the pairs of the query in input order
ParseQuery(q) == parseQueryLoop(Split(q, "&"), <<>>, FALSE)

\* url.Values as a multimap: the keys, and the values of one key in order
KeysOf(pairs) == {pairs[i].k : i \in DOMAIN pairs}

\* mutant: only the first value of a key is read (url.Values.Get)
ValuesOf_First(pairs, key) ==
    LET at == {i \in 1..Len(pairs) : pairs[i].k = key}
    IN IF at = {} THEN <<>>
       ELSE <<pairs[CHOOSE i \in at : \A j \in at : i <= j].v>>

RECURSIVE ValuesOf(_, _)
ValuesOf(pairs, key) ==
    IF pairs = <<>> THEN <<>>
    ELSE (IF Head(pairs).k = key THEN <<Head(pairs).v>> ELSE <<>>)
         \o ValuesOf(Tail(pairs), key)

RECURSIVE SortKeys(_)
\* sort.Strings over a set of keys
SortKeys(ks) ==
    IF ks = {} THEN <<>>
    ELSE LET m == CHOOSE k \in ks : \A o \in ks : ~StrLess(o, k)
         IN <<m>> \o SortKeys(ks \ {m})

RECURSIVE JoinAmp(_)
JoinAmp(parts) ==
    IF parts = <<>> THEN <<>>
    ELSE IF Len(parts) = 1 THEN Head(parts)
    ELSE Head(parts) \o <<"&">> \o JoinAmp(Tail(parts))

\* one "key=value" part per value of the key
EncodeKey(key, vals) ==
    [i \in 1..Len(vals) |-> QueryEscape(key) \o <<"=">> \o QueryEscape(vals[i])]

RECURSIVE encodeLoop(_, _)
encodeLoop(keys, pairs) ==
    IF keys = <<>> THEN <<>>
    ELSE EncodeKey(Head(keys), ValuesOf(pairs, Head(keys)))
         \o encodeLoop(Tail(keys), pairs)

\* url.Values.Encode: keys sorted, each key's values in insertion order
Encode(pairs) == JoinAmp(encodeLoop(SortKeys(KeysOf(pairs)), pairs))

-----------------------------------------------------------------------------
(* Go types. A type is named by a string and described by a record *)
(*   k      its reflect.Kind                                         *)
(*   bits   the width of an integer or float kind                    *)
(*   key    a map's key type, elem a map's, slice's or pointer's     *)
(*          element type                                             *)
(*   fields a struct's fields: Go identifier, form tag, field type   *)
(*   um     *T implements Unmarshaler; mm  T implements Marshaler    *)

Desc(k, bits, key, elem, fields, um, mm) ==
    [k |-> k, bits |-> bits, key |-> key, elem |-> elem, fields |-> fields,
     um |-> um, mm |-> mm]

Scalar(k, bits) == Desc(k, bits, "", "", <<>>, FALSE, FALSE)
SliceOf(elem) == Desc("slice", 0, "", elem, <<>>, FALSE, FALSE)
MapOf(key, elem) == Desc("map", 0, key, elem, <<>>, FALSE, FALSE)
PtrTo(elem) == Desc("ptr", 0, "", elem, <<>>, FALSE, FALSE)
Struct(fields) == Desc("struct", 0, "", "", fields, FALSE, FALSE)
Field(name, tag, type) == [name |-> name, tag |-> tag, type |-> type]

s_omitempty == <<",", "o", "m", "i", "t", "e", "m", "p", "t", "y">>
s_name == <<"n", "a", "m", "e">>
s_age == <<"a", "g", "e">>
s_pronouns == <<"p", "r", "o", "n", "o", "u", "n", "s">>
s_street == <<"s", "t", "r", "e", "e", "t">>
s_city == <<"c", "i", "t", "y">>
s_state == <<"s", "t", "a", "t", "e">>
s_zip == <<"z", "i", "p">>
s_address == <<"a", "d", "d", "r", "e", "s", "s">>
s_data == <<"d", "a", "t", "a">>
s_bogus == <<"b", "o", "g", "u", "s">>
s_gopher == <<"g", "o", "p", "h", "e", "r">>
s_zebra == <<"z", "e", "b", "r", "a">>
s_unknown == <<"u", "n", "k", "n", "o", "w", "n">>
s_true == <<"t", "r", "u", "e">>
s_created_at == <<"c", "r", "e", "a", "t", "e", "d", "_", "a", "t">>
s_optional == <<"o", "p", "t", "i", "o", "n", "a", "l">>
s_false == <<"f", "a", "l", "s", "e">>

\* fixtures_test.go: Person
PersonT ==
    Struct(<<Field(<<"N", "a", "m", "e">>, s_name, "string"),
             Field(<<"A", "g", "e">>, s_age \o s_omitempty, "int"),
             Field(<<"P", "r", "o", "n", "o", "u", "n", "s">>, s_pronouns, "[]string")>>)

\* fixtures_test.go: Address
AddressT ==
    Struct(<<Field(<<"S", "t", "r", "e", "e", "t">>, s_street, "string"),
             Field(<<"C", "i", "t", "y">>, s_city, "string"),
             Field(<<"S", "t", "a", "t", "e">>, s_state, "string"),
             Field(<<"Z", "i", "p">>, s_zip, "string")>>)

\* fixtures_test.go: User
UserT ==
    Struct(<<Field(<<"N", "a", "m", "e">>, s_name, "string"),
             Field(<<"A", "g", "e">>, s_age \o s_omitempty, "int"),
             Field(<<"A", "d", "d", "r", "e", "s", "s">>, s_address, "Address")>>)

\* a record whose only field is an omitempty integer
CounterT == Struct(<<Field(<<"N">>, <<"n">> \o s_omitempty, "int")>>)

\* a record whose only field is an omitempty float
GaugeT == Struct(<<Field(<<"F">>, <<"f">> \o s_omitempty, "float64")>>)

\* a record with a dynamically typed field
HolderT == Struct(<<Field(<<"D", "a", "t", "a">>, s_data, "interface{}")>>)

\* a record with one slot of each numeric kind and a boolean
ScalarsT ==
    Struct(<<Field(<<"I">>, <<"i">>, "int8"),
             Field(<<"U">>, <<"u">>, "uint8"),
             Field(<<"F">>, <<"f">>, "float64"),
             Field(<<"B">>, <<"b">>, "bool")>>)

\* a record with an optional field, a custom-codec field and a sequence of
\* records
ProfileT ==
    Struct(<<Field(<<"O">>, <<"o">> \o s_omitempty, "*string"),
             Field(<<"P">>, <<"p">>, "Animal"),
             Field(<<"A">>, <<"a">>, "[]Address")>>)

\* struct { N []int8 `form:"n"` }
ReadingsT == Struct(<<Field(<<"N">>, <<"n">>, "[]int8")>>)

\* fixtures: IgnoredFieldsForm
IgnoredFieldsFormT ==
    Struct(<<Field(<<"P", "u", "b", "l", "i", "c">>, <<"p", "u", "b", "l", "i", "c">>,
                   "string"),
             Field(<<"P", "r", "i", "v", "a", "t", "e">>, <<"-">>, "string"),
             Field(<<"I", "g", "n", "o", "r", "e", "d">>,
                   <<",", "i", "g", "n", "o", "r", "e">>, "string"),
             Field(<<"N", "o", "T", "a", "g">>, <<>>, "string"),
             Field(<<"E", "m", "p", "t", "y">>, <<>>, "string"),
             Field(<<"O", "m", "i", "t", "t", "e", "d">>, s_omitempty, "string"),
             Field(<<"C", "o", "m", "p", "l", "e", "x">>,
                   <<"c", "o", "m", "p", "l", "e", "x">> \o s_omitempty, "MyDate")>>)

\* struct { A string `form:"-,omitempty"`; B string `form:"b,ignore"`;
\*          C string `form:" - "`; D string `form:"d"` }
HiddenT ==
    Struct(<<Field(<<"A">>, <<"-">> \o s_omitempty, "string"),
             Field(<<"B">>, <<"b", ",", "i", "g", "n", "o", "r", "e">>, "string"),
             Field(<<"C">>, <<" ", "-", " ">>, "string"),
             Field(<<"D">>, <<"d">>, "string")>>)

\* struct { N int `form:"n,omitempty"`; M string `form:"n"` }: two fields of
\* one name
TwinsT ==
    Struct(<<Field(<<"N">>, <<"n">> \o s_omitempty, "int"),
             Field(<<"M">>, <<"n">>, "string")>>)

\* struct { N int `form:"n,omitempty"`; B string `form:"a[b],omitempty"` }: a
\* name with a bracket
BracketT ==
    Struct(<<Field(<<"N">>, <<"n">> \o s_omitempty, "int"),
             Field(<<"B">>, <<"a", "[", "b", "]">> \o s_omitempty, "string")>>)

\* struct { N int `form:"n,omitempty"`; Name string `form:"name"`;
\*          secret string `form:",omitempty"` }: an unexported field that is
\* not ignored and has no tag name
SealedT ==
    Struct(<<Field(<<"N">>, <<"n">> \o s_omitempty, "int"),
             Field(<<"N", "a", "m", "e">>, s_name, "string"),
             Field(<<"s", "e", "c", "r", "e", "t">>, s_omitempty, "string")>>)

\* struct { X string `form:"x],omitempty"`; Y string `form:"y["` }: names
\* with one bracket, in a nested record
InnerT ==
    Struct(<<Field(<<"X">>, <<"x", "]">> \o s_omitempty, "string"),
             Field(<<"Y">>, <<"y", "[">>, "string")>>)

\* struct { N int `form:"n,omitempty"`; In Inner `form:"in"` }
OuterT ==
    Struct(<<Field(<<"N">>, <<"n">> \o s_omitempty, "int"),
             Field(<<"I", "n">>, <<"i", "n">>, "Inner")>>)

\* struct { C *Counter `form:"c"`; Name string `form:"name"` }: an optional
\* record
OptT ==
    Struct(<<Field(<<"C">>, <<"c">>, "*Counter"),
             Field(<<"N", "a", "m", "e">>, s_name, "string")>>)

\* struct { A string `form:"-"`; B string `form:"A"` }: a field tagged with
\* the identifier of an ignored field
ShadowT ==
    Struct(<<Field(<<"A">>, <<"-">>, "string"),
             Field(<<"B">>, <<"A">>, "string")>>)

\* a record with a channel field
PipeT == Struct(<<Field(<<"C">>, <<"c">>, "chan int")>>)

\* package time: the time zone a Time is in, and what it is made of
zoneT ==
    Struct(<<Field(<<"n", "a", "m", "e">>, <<>>, "string"),
             Field(<<"o", "f", "f", "s", "e", "t">>, <<>>, "int"),
             Field(<<"i", "s", "D", "S", "T">>, <<>>, "bool")>>)

zoneTransT ==
    Struct(<<Field(<<"w", "h", "e", "n">>, <<>>, "int64"),
             Field(<<"i", "n", "d", "e", "x">>, <<>>, "uint8"),
             Field(<<"i", "s", "s", "t", "d">>, <<>>, "bool"),
             Field(<<"i", "s", "u", "t", "c">>, <<>>, "bool")>>)

LocationT ==
    Struct(<<Field(<<"n", "a", "m", "e">>, <<>>, "string"),
             Field(<<"z", "o", "n", "e">>, <<>>, "[]time.zone"),
             Field(<<"t", "x">>, <<>>, "[]time.zoneTrans"),
             Field(<<"e", "x", "t", "e", "n", "d">>, <<>>, "string"),
             Field(<<"c", "a", "c", "h", "e", "S", "t", "a", "r", "t">>, <<>>, "int64"),
             Field(<<"c", "a", "c", "h", "e", "E", "n", "d">>, <<>>, "int64"),
             Field(<<"c", "a", "c", "h", "e", "Z", "o", "n", "e">>, <<>>, "*time.zone")>>)

\* fixtures_test.go: MyDate, a time.Time: the unexported fields wall (the
\* nanoseconds, when the time has no monotonic clock reading), ext (the
\* seconds since January 1 of year 1) and loc (nil for UTC); *MyDate
\* implements Unmarshaler and MyDate implements Marshaler
MyDateT ==
    Desc("struct", 0, "", "",
         <<Field(<<"w", "a", "l", "l">>, <<>>, "uint64"),
           Field(<<"e", "x", "t">>, <<>>, "int64"),
           Field(<<"l", "o", "c">>, <<>>, "*time.Location")>>, TRUE, TRUE)

\* fixtures_test.go: ComplexPerson
ComplexPersonT ==
    Struct(<<Field(<<"I", "D">>, <<"i", "d">>, "int"),
             Field(<<"N", "a", "m", "e">>, s_name, "string"),
             Field(<<"A", "g", "e">>, s_age \o s_omitempty, "int"),
             Field(<<"P", "r", "o", "n", "o", "u", "n", "s">>, s_pronouns \o s_omitempty,
                   "[]string"),
             Field(<<"C", "r", "e", "a", "t", "e", "d", "A", "t">>, s_created_at, "MyDate"),
             Field(<<"P", "r", "i", "v", "a", "t", "e">>, <<"-">>, "string"),
             Field(<<"O", "p", "t", "i", "o", "n", "a", "l">>, s_optional \o s_omitempty,
                   "*string")>>)

TypeOf(n) ==
    CASE n = "string" -> Scalar("string", 0)
      [] n = "int" -> Scalar("int", 64)
      [] n = "int8" -> Scalar("int", 8)
      [] n = "uint8" -> Scalar("uint", 8)
      [] n = "float64" -> Scalar("float", 64)
      [] n = "bool" -> Scalar("bool", 0)
      [] n = "interface{}" -> Scalar("iface", 0)
      [] n = "Animal" -> Desc("int", 64, "", "", <<>>, TRUE, TRUE)
      [] n = "*string" -> PtrTo("string")
      [] n = "[]string" -> SliceOf("string")
      [] n = "[]int8" -> SliceOf("int8")
      [] n = "[]Address" -> SliceOf("Address")
      [] n = "[]interface{}" -> SliceOf("interface{}")
      [] n = "map[string]interface{}" -> MapOf("string", "interface{}")
      [] n = "map[string]string" -> MapOf("string", "string")
      [] n = "Person" -> PersonT
      [] n = "Address" -> AddressT
      [] n = "User" -> UserT
      [] n = "Counter" -> CounterT
      [] n = "Gauge" -> GaugeT
      [] n = "Holder" -> HolderT
      [] n = "Scalars" -> ScalarsT
      [] n = "Profile" -> ProfileT
      [] n = "int64" -> Scalar("int", 64)
      [] n = "uint64" -> Scalar("uint", 64)
      [] n = "time.zone" -> zoneT
      [] n = "time.zoneTrans" -> zoneTransT
      [] n = "[]time.zone" -> SliceOf("time.zone")
      [] n = "[]time.zoneTrans" -> SliceOf("time.zoneTrans")
      [] n = "*time.zone" -> PtrTo("time.zone")
      [] n = "time.Location" -> LocationT
      [] n = "*time.Location" -> PtrTo("time.Location")
      [] n = "chan int" -> Scalar("chan", 0)
      [] n = "func()" -> Scalar("func", 0)
      [] n = "complex128" -> Scalar("complex", 128)
      [] n = "*Person" -> PtrTo("Person")
      [] n = "map[int]string" -> MapOf("int", "string")
      [] n = "Pipe" -> PipeT
      [] n = "Readings" -> ReadingsT
      [] n = "map[string]Address" -> MapOf("string", "Address")
      [] n = "map[string][]string" -> MapOf("string", "[]string")
      [] n = "map[string][]int8" -> MapOf("string", "[]int8")
      [] n = "IgnoredFieldsForm" -> IgnoredFieldsFormT
      [] n = "Hidden" -> HiddenT
      [] n = "MyDate" -> MyDateT
      [] n = "[]MyDate" -> SliceOf("MyDate")
      [] n = "map[string]Animal" -> MapOf("string", "Animal")
      [] n = "ComplexPerson" -> ComplexPersonT
      [] n = "Twins" -> TwinsT
      [] n = "Bracket" -> BracketT
      [] n = "Sealed" -> SealedT
      [] n = "Inner" -> InnerT
      [] n = "Outer" -> OuterT
      [] n = "*Counter" -> PtrTo("Counter")
      [] n = "Opt" -> OptT
      [] n = "Shadow" -> ShadowT

Kind(n) == TypeOf(n).k
Bits(n) == TypeOf(n).bits
Elem(n) == TypeOf(n).elem
Fields(n) == TypeOf(n).fields

-----------------------------------------------------------------------------
(* Go values                                                          *)
(*   string            a sequence of characters                       *)
(*   int, uint         [neg, d]: sign and decimal digits, no leading  *)
(*                     zeros (any width fits; no arithmetic is done)  *)
(*   float             [neg, i, f]: sign, integer digits and fraction *)
(*                     digits of the decimal the float prints as      *)
(*   bool              a boolean                                      *)
(*   struct            the tuple of its field values                  *)
(*   slice             [e |-> elements, nil |-> is the nil slice]     *)
(*   map               [m |-> key -> value, nil |-> is the nil map]   *)
(*   pointer           [nil |-> is nil, p |-> the value pointed to]   *)
(*   interface         [dt |-> dynamic type, dv |-> dynamic value,    *)
(*                      nil |-> is the nil interface]                 *)

NilIface == [dt |-> "nil", dv |-> 0, nil |-> TRUE]
Iface(t, v) == [dt |-> t, dv |-> v, nil |-> FALSE]
NilSlice == [e |-> <<>>, nil |-> TRUE]
SliceVal(e) == [e |-> e, nil |-> FALSE]
NilMap == [m |-> <<>>, nil |-> TRUE]
MapVal(m) == [m |-> m, nil |-> FALSE]
NilPtr == [nil |-> TRUE, p |-> 0]
PtrVal(v) == [nil |-> FALSE, p |-> v]
IntVal(neg, d) == [neg |-> neg, d |-> d]
IntZero == IntVal(FALSE, <<"0">>)
FloatVal(neg, i, f) == [neg |-> neg, i |-> i, f |-> f]
FloatZero == FloatVal(FALSE, <<"0">>, <<>>)
\* the float -0
NegZero == FloatVal(TRUE, <<"0">>, <<>>)

\* m with key k set to v, as Go's m[k] = v
MapPut(m, k, v) == [x \in DOMAIN m \cup {k} |-> IF x = k THEN v ELSE m[x]]

\* baseTime of the tests: 2025.02.08
s_date == <<"2", "0", "2", "5", ".", "0", "2", ".", "0", "8">>

\* time.Time{} as the layout 2006.01.02 prints it
ZeroDate == <<"0", "0", "0", "1", ".", "0", "1", ".", "0", "1">>

RECURSIVE Zero(_)
\* reflect.Zero / the value reflect.New(T).Elem() starts with
Zero(n) ==
    LET of(t) ==
          CASE t.k = "string" -> <<>>
            [] t.k \in {"chan", "func"} -> [nil |-> TRUE]
            [] t.k = "complex" -> [re |-> FloatZero, im |-> FloatZero]
            [] t.k \in {"int", "uint"} -> IntZero
            [] t.k = "float" -> FloatZero
            [] t.k = "bool" -> FALSE
            [] t.k = "iface" -> NilIface
            [] t.k = "ptr" -> NilPtr
            [] t.k = "slice" -> NilSlice
            [] t.k = "map" -> NilMap
            [] t.k = "struct" -> [i \in 1..Len(t.fields) |-> Zero(t.fields[i].type)]
    IN IF n = "nil" THEN NilIface ELSE of(TypeOf(n))

-----------------------------------------------------------------------------
(* strconv as used by setScalar and getScalar *)

AllDigits(s) == \A i \in 1..Len(s) : PosIn(Digits, s[i]) > 0

RECURSIVE StripZeros(_)
\* the numeral without leading zeros
StripZeros(ds) == IF Len(ds) > 1 /\ Head(ds) = "0" THEN StripZeros(Tail(ds)) ELSE ds

\* a < b for numerals without leading zeros
NumLess(a, b) == Len(a) < Len(b) \/ (Len(a) = Len(b) /\ StrLess(a, b))

\* the decimal numeral of 2^n, for the widths of Go's integer kinds
Pow2(n) ==
    CASE n = 7 -> <<"1", "2", "8">>
      [] n = 8 -> <<"2", "5", "6">>
      [] n = 15 -> <<"3", "2", "7", "6", "8">>
      [] n = 16 -> <<"6", "5", "5", "3", "6">>
      [] n = 31 -> <<"2", "1", "4", "7", "4", "8", "3", "6", "4", "8">>
      [] n = 32 -> <<"4", "2", "9", "4", "9", "6", "7", "2", "9", "6">>
      [] n = 63 -> <<"9", "2", "2", "3", "3", "7", "2", "0", "3", "6",
                     "8", "5", "4", "7", "7", "5", "8", "0", "8">>
      [] n = 64 -> <<"1", "8", "4", "4", "6", "7", "4", "4", "0", "7",
                     "3", "7", "0", "9", "5", "5", "1", "6", "1", "6">>

ParseFail == [err |-> TRUE, v |-> IntZero]

\* strconv.ParseUint(s, 10, bits)
ParseUint(s, bits) ==
    IF s = <<>> \/ ~AllDigits(s) THEN ParseFail
    ELSE LET n == StripZeros(s)
         IN IF NumLess(n, Pow2(bits)) THEN [err |-> FALSE, v |-> IntVal(FALSE, n)]
            ELSE ParseFail

\* mutant: the numeral is parsed for 64 bits, whatever the width asked for
ParseInt_Wide(s, bits) ==
    IF s = <<>> THEN ParseFail
    ELSE
      LET neg == Head(s) = "-"
          ds == IF Head(s) \in {"+", "-"} THEN Tail(s) ELSE s
      IN IF ds = <<>> \/ ~AllDigits(ds) THEN ParseFail
         ELSE LET n == StripZeros(ds)
                  lim == Pow2(63)
              IN IF NumLess(n, lim) \/ (neg /\ n = lim)
                 THEN [err |-> FALSE, v |-> IntVal(neg /\ n # <<"0">>, n)]
                 ELSE ParseFail

\* strconv.ParseInt(s, 10, bits)
ParseInt(s, bits) ==
    IF s = <<>> THEN ParseFail
    ELSE
      LET neg == Head(s) = "-"
          ds == IF Head(s) \in {"+", "-"} THEN Tail(s) ELSE s
      IN IF ds = <<>> \/ ~AllDigits(ds) THEN ParseFail
         ELSE LET n == StripZeros(ds)
                  lim == Pow2(bits - 1)
              IN IF NumLess(n, lim) \/ (neg /\ n = lim)
                 THEN [err |-> FALSE, v |-> IntVal(neg /\ n # <<"0">>, n)]
                 ELSE ParseFail

\* strconv.FormatInt(v, 10) and strconv.FormatUint(v, 10)
FormatInt(v) == (IF v.neg THEN <<"-">> ELSE <<>>) \o v.d

(* strconv's floating-point conversions, in exact decimal arithmetic. A
   magnitude is a record [d, dp]: the digits d (numbers 0..9, no zero at
   either end) and the position dp of the decimal point, for the value
   0.d * 10^dp. Zero has no digits. Every float is a multiple of a power of
   two, so its decimal expansion is finite and FloatVal holds it whole. *)

Dec(d, dp) == [d |-> d, dp |-> dp]
DecZero == Dec(<<>>, 0)
DecOne == Dec(<<1>>, 1)

\* the digits a..b of d, whose point stood after the first dp digits
Cut(d, dp, a, b) == Dec(SubSeq(d, a, b), dp - (a - 1))

\* the magnitude of the digits d with the point after the first dp of them
Trim(d, dp) ==
    IF \A i \in 1..Len(d) : d[i] = 0 THEN DecZero
    ELSE Cut(d, dp,
             CHOOSE i \in 1..Len(d) : d[i] # 0 /\ \A j \in 1..(i - 1) : d[j] = 0,
             CHOOSE i \in 1..Len(d) : d[i] # 0 /\ \A j \in (i + 1)..Len(d) : d[j] = 0)

\* Trim for n digits of which only the first and the last can be zero
TrimEnds(d, n, dp) == Cut(d, dp, IF d[1] = 0 THEN 2 ELSE 1, IF d[n] = 0 THEN n - 1 ELSE n)

\* 2 * x: a digit doubles and takes the carry of the digit after it
Double(x) ==
    IF x.d = <<>> THEN x
    ELSE TrimEnds([j \in 1..(Len(x.d) + 1) |->
                     (IF j = 1 THEN 0 ELSE (2 * x.d[j - 1]) % 10)
                     + (IF j <= Len(x.d) /\ x.d[j] >= 5 THEN 1 ELSE 0)],
                  Len(x.d) + 1, x.dp + 1)

\* x / 2: a digit halves and takes five for the odd digit before it
Half(x) ==
    IF x.d = <<>> THEN x
    ELSE TrimEnds([j \in 1..(Len(x.d) + 1) |->
                     (IF j > Len(x.d) THEN 0 ELSE x.d[j] \div 2)
                     + (IF j > 1 /\ x.d[j - 1] % 2 = 1 THEN 5 ELSE 0)],
                  Len(x.d) + 1, x.dp)

\* k / 2, rounded toward zero
HalfOf(k) == IF k > 0 THEN k \div 2 ELSE -((-k) \div 2)

RECURSIVE Shift(_, _)
\* x * 2^k, exactly
Shift(x, k) ==
    IF x.d = <<>> \/ k = 0 THEN x
    ELSE IF k = 1 THEN Double(x)
    ELSE IF k = -1 THEN Half(x)
    ELSE Shift(Shift(x, HalfOf(k)), k - HalfOf(k))

\* x < y for magnitudes
DecLess(x, y) ==
    IF y.d = <<>> THEN FALSE
    ELSE IF x.d = <<>> THEN TRUE
    ELSE IF x.dp # y.dp THEN x.dp < y.dp
    ELSE \E i \in 1..Len(y.d) :
            /\ (IF i <= Len(x.d) THEN x.d[i] ELSE 0) < y.d[i]
            /\ \A j \in 1..(i - 1) : j <= Len(x.d) /\ x.d[j] = y.d[j]

\* the digits ds with the digit at k raised by one and zeros after it
Raise(ds, k) ==
    [i \in 1..Len(ds) |-> IF i < k THEN ds[i] ELSE IF i = k THEN ds[i] + 1 ELSE 0]

\* the digits of a whole number, plus one
Inc(ds) ==
    IF \A i \in 1..Len(ds) : ds[i] = 9 THEN <<1>> \o [i \in 1..Len(ds) |-> 0]
    ELSE Raise(ds, CHOOSE i \in 1..Len(ds) :
                      ds[i] # 9 /\ \A j \in (i + 1)..Len(ds) : ds[j] = 9)

\* the digits before the point of x
Whole(x) ==
    IF x.dp <= 0 THEN <<>>
    ELSE [j \in 1..x.dp |-> IF j <= Len(x.d) THEN x.d[j] ELSE 0]

\* the magnitude of the whole number of digits w
WholeDec(w) == Trim(w, Len(w))

\* floatInfo: the mantissa holds p bits, and a float is m * 2^e for a whole
\* m below 2^p (top) and e from emin (the denormals) to emax; low is 2^(p-1)
float32info == [p |-> 24, emin |-> -149, emax |-> 104,
                top |-> Dec(<<1, 6, 7, 7, 7, 2, 1, 6>>, 8),
                low |-> Dec(<<8, 3, 8, 8, 6, 0, 8>>, 7)]
float64info == [p |-> 53, emin |-> -1074, emax |-> 971,
                top |-> Dec(<<9, 0, 0, 7, 1, 9, 9, 2, 5, 4, 7, 4, 0, 9, 9, 2>>, 16),
                low |-> Dec(<<4, 5, 0, 3, 5, 9, 9, 6, 2, 7, 3, 7, 0, 4, 9, 6>>, 16)]
floatInfo(bits) == IF bits = 32 THEN float32info ELSE float64info

RECURSIVE Adjust(_, _, _)
\* [y, e] with the same y * 2^e and 2^(p-1) <= y < 2^p, or y below that
\* with e = emin
Adjust(y, e, flt) ==
    IF ~DecLess(y, flt.top) THEN Adjust(Half(y), e + 1, flt)
    ELSE IF DecLess(y, flt.low) /\ e > flt.emin THEN Adjust(Double(y), e - 1, flt)
    ELSE [y |-> y, e |-> e]

\* a binary exponent near the one that brings x into the mantissa's range
Estimate(x, flt) ==
    IF ((x.dp - 1) * 3321928) \div 1000000 - (flt.p - 1) < flt.emin THEN flt.emin
    ELSE ((x.dp - 1) * 3321928) \div 1000000 - (flt.p - 1)

ScaledFrom(x, e0, flt) == Adjust(Shift(x, -e0), e0, flt)

\* x as y * 2^e, y in the mantissa's range
Scaled(x, flt) == ScaledFrom(x, Estimate(x, flt), flt)

\* the whole number w, or the next one when the fraction of y, which starts
\* with the digit f1, is above a half or is a half and w is odd
RoundWhole(y, w, f1) ==
    WholeDec(IF f1 > 5 \/ (f1 = 5 /\ (y.dp + 1 < Len(y.d)
                                      \/ (y.dp >= 1 /\ w[y.dp] % 2 = 1)))
             THEN Inc(w) ELSE w)

\* the whole number nearest to y, the even one of two equally near
RoundEven(y) ==
    RoundWhole(y, Whole(y), IF y.dp >= 0 /\ y.dp < Len(y.d) THEN y.d[y.dp + 1] ELSE 0)

\* the float m * 2^e, when it is one
Rounded(m, e, flt) ==
    IF (IF m = flt.top THEN e + 1 ELSE e) > flt.emax THEN [st |-> "range", x |-> DecZero]
    ELSE [st |-> "ok", x |-> Shift(m, e)]

NearestScaled(s, flt) == Rounded(RoundEven(s.y), s.e, flt)

\* the float of the given width nearest to the magnitude x: "range" when it
\* is beyond the largest float, zero when it is below half the smallest
Nearest(x, bits) ==
    IF x.d = <<>> \/ x.dp < -330 THEN [st |-> "ok", x |-> DecZero]
    ELSE IF x.dp > 310 THEN [st |-> "range", x |-> DecZero]
    ELSE NearestScaled(Scaled(x, floatInfo(bits)), floatInfo(bits))

DigitChars(ds) == [j \in 1..Len(ds) |-> Digits[ds[j] + 1]]
DigitVals(cs) == [j \in 1..Len(cs) |-> HexVal(cs[j])]

s_Inf == <<"I", "n", "f">>
s_NaN == <<"N", "a", "N">>
Inf(neg) == FloatVal(neg, s_Inf, <<>>)
NaN == FloatVal(FALSE, s_NaN, <<>>)

\* the float of sign neg and magnitude x
FloatOf(neg, x) ==
    FloatVal(neg,
             IF x.dp <= 0 THEN <<"0">> ELSE SubSeq(DigitChars(Whole(x)), 1, x.dp),
             IF x.dp >= Len(x.d) THEN <<>>
             ELSE SubSeq([j \in 1..(Len(x.d) - x.dp) |->
                            IF j + x.dp < 1 THEN "0" ELSE Digits[x.d[j + x.dp] + 1]],
                         1, Len(x.d) - x.dp))

\* the magnitude of a finite float
Magnitude(v) == Trim(DigitVals(v.i \o v.f), Len(v.i))

\* lower: the ASCII letter in lower case
lower(c) == IF PosIn(UpperCase, c) > 0 THEN LowerCase[PosIn(UpperCase, c)] ELSE c

\* the sign s starts with, and what follows it
SignOf(s) == IF s # <<>> /\ Head(s) \in {"+", "-"} THEN Head(s) ELSE ""
Unsigned(s) == IF s # <<>> /\ Head(s) \in {"+", "-"} THEN Tail(s) ELSE s

\* the float that a sign and a word in lower case name
specialWord(sign, word) ==
    IF word \in {<<"i", "n", "f">>, <<"i", "n", "f", "i", "n", "i", "t", "y">>}
    THEN [ok |-> TRUE, v |-> Inf(sign = "-")]
    ELSE IF sign = "" /\ word = <<"n", "a", "n">> THEN [ok |-> TRUE, v |-> NaN]
    ELSE [ok |-> FALSE, v |-> FloatZero]

\* special: an infinity or a NaN, when the whole of s spells one
special(s) ==
    specialWord(SignOf(s),
                SubSeq([j \in 1..Len(Unsigned(s)) |-> lower(Unsigned(s)[j])],
                       1, Len(Unsigned(s))))

IsDigit(c) == PosIn(Digits, c) > 0
IsHexLetter(c) == c \in {"a", "b", "c", "d", "e", "f", "A", "B", "C", "D", "E", "F"}

RECURSIVE underscoreScan(_, _, _, _)
\* underscoreOK's loop from position i, where saw is "0" after a digit,
\* "_" after an underscore and "!" after anything else
underscoreScan(s, i, hex, saw) ==
    IF i > Len(s) THEN saw # "_"
    ELSE IF IsDigit(s[i]) \/ (hex /\ IsHexLetter(s[i])) THEN underscoreScan(s, i + 1, hex, "0")
    ELSE IF s[i] = "_" THEN saw = "0" /\ underscoreScan(s, i + 1, hex, "_")
    ELSE saw # "_" /\ underscoreScan(s, i + 1, hex, "!")

\* underscoreOK after the sign
underscoreBody(s) ==
    IF Len(s) >= 2 /\ s[1] = "0" /\ s[2] \in {"b", "o", "x", "B", "O", "X"}
    THEN underscoreScan(s, 3, s[2] \in {"x", "X"}, "0")
    ELSE underscoreScan(s, 1, FALSE, "^")

\* underscoreOK: an underscore stands only between digits, or between the
\* base prefix and a digit
underscoreOK(s) == underscoreBody(Unsigned(s))

RECURSIVE scanMantissa(_, _, _, _)
\* the position after the mantissa that starts at i
scanMantissa(s, i, sawdot, hex) ==
    IF i > Len(s) THEN i
    ELSE IF s[i] = "_" THEN scanMantissa(s, i + 1, sawdot, hex)
    ELSE IF s[i] = "." THEN (IF sawdot THEN i ELSE scanMantissa(s, i + 1, TRUE, hex))
    ELSE IF IsDigit(s[i]) \/ (hex /\ IsHexLetter(s[i]))
    THEN scanMantissa(s, i + 1, sawdot, hex)
    ELSE i

RECURSIVE scanExponent(_, _, _)
\* the position after the exponent's digits and their value, which stops
\* growing at 10000
scanExponent(s, i, e) ==
    IF i > Len(s) \/ ~(IsDigit(s[i]) \/ s[i] = "_") THEN [i |-> i, e |-> e]
    ELSE IF s[i] = "_" \/ e >= 10000 THEN scanExponent(s, i + 1, e)
    ELSE scanExponent(s, i + 1, e * 10 + HexVal(s[i]))

signedExponent(esign, r) == [ok |-> TRUE, e |-> r.e * esign, i |-> r.i]

\* the exponent of sign esign whose digits start at j
exponentDigits(s, esign, j) ==
    IF j > Len(s) \/ ~IsDigit(s[j]) THEN [ok |-> FALSE, e |-> 0, i |-> j]
    ELSE signedExponent(esign, scanExponent(s, j, 0))

\* the exponent that may follow a mantissa ending before position i: a
\* hexadecimal mantissa must have one
readExponent(s, i, hex) ==
    IF i <= Len(s) /\ s[i] \in (IF hex THEN {"p", "P"} ELSE {"e", "E"})
    THEN exponentDigits(s, IF i < Len(s) /\ s[i + 1] = "-" THEN -1 ELSE 1,
                        IF i < Len(s) /\ s[i + 1] \in {"+", "-"} THEN i + 2 ELSE i + 1)
    ELSE [ok |-> ~hex, e |-> 0, i |-> i]

noFloat == [ok |-> FALSE, neg |-> FALSE, hex |-> FALSE, mant |-> <<>>, frac |-> 0,
            exp |-> 0, i |-> 1]

\* the digits of a mantissa
MantDigits(text) == SelectSeq(text, LAMBDA c : c \notin {"_", "."})

\* how many digits of a mantissa follow its point
FracDigits(text) ==
    IF IndexByte(text, ".") = 0 THEN 0
    ELSE Len(MantDigits(SubSeq(text, IndexByte(text, ".") + 1, Len(text))))

\* the number of mantissa text and exponent x
readNumber(s, neg, hex, text, x) ==
    IF MantDigits(text) = <<>> \/ ~x.ok
       \/ ((\E j \in 1..(x.i - 1) : s[j] = "_") /\ ~underscoreOK(SubSeq(s, 1, x.i - 1)))
    THEN noFloat
    ELSE [ok |-> TRUE, neg |-> neg, hex |-> hex, mant |-> MantDigits(text),
          frac |-> FracDigits(text), exp |-> x.e, i |-> x.i]

\* the number whose mantissa stands from i1 to before i2
readMantissa(s, neg, hex, i1, i2) ==
    readNumber(s, neg, hex, SubSeq(s, i1, i2 - 1), readExponent(s, i2, hex))

\* the number that starts at i0 after the sign: a 0x and at least one more
\* character make it hexadecimal
readUnsigned(s, neg, hex, i0) ==
    IF i0 > Len(s) THEN noFloat
    ELSE readMantissa(s, neg, hex, IF hex THEN i0 + 2 ELSE i0,
                      scanMantissa(s, IF hex THEN i0 + 2 ELSE i0, FALSE, hex))

readSigned(s, neg, i0) ==
    readUnsigned(s, neg, i0 + 2 <= Len(s) /\ s[i0] = "0" /\ s[i0 + 1] \in {"x", "X"}, i0)

\* readFloat: the sign, the base, the mantissa's digits, how many of them
\* follow the point, the exponent, and the position i after the number
readFloat(s) == readSigned(s, SignOf(s) = "-", IF SignOf(s) = "" THEN 1 ELSE 2)

\* the whole number of digits w, which is even, plus one
AddOne(w) ==
    IF Len(w) = 0 THEN DecOne
    ELSE WholeDec([j \in 1..Len(w) |-> IF j = Len(w) THEN w[j] + 1 ELSE w[j]])

\* x + b for an even whole number x and a bit b
AddBit(x, b) == IF b = 0 THEN x ELSE AddOne(Whole(x))

RECURSIVE HexMagnitude(_, _)
\* the whole number of the first k bits of the hexadecimal digits hs
HexMagnitude(hs, k) ==
    IF k = 0 THEN DecZero
    ELSE AddBit(Double(HexMagnitude(hs, k - 1)),
                IF (k - 1) % 4 = 0 THEN HexVal(hs[(k + 3) \div 4]) \div 8
                ELSE IF (k - 1) % 4 = 1 THEN (HexVal(hs[(k + 3) \div 4]) \div 4) % 2
                ELSE IF (k - 1) % 4 = 2 THEN (HexVal(hs[(k + 3) \div 4]) \div 2) % 2
                ELSE HexVal(hs[(k + 3) \div 4]) % 2)

\* m * 2^e2 for a mantissa m of bits bits; one far beyond the floats counts
\* as 10^399 and one far below as zero
HexShifted(m, bits, e2) ==
    IF m.d = <<>> \/ e2 + bits < -1100 THEN DecZero
    ELSE IF e2 > 1100 THEN Dec(<<1>>, 400)
    ELSE Shift(m, e2)

\* the magnitude that the number n read by readFloat spells
Spelled(n) ==
    IF n.hex THEN HexShifted(HexMagnitude(n.mant, 4 * Len(n.mant)), 4 * Len(n.mant),
                             n.exp - 4 * n.frac)
    ELSE Trim(DigitVals(n.mant), Len(n.mant) - n.frac + n.exp)

floatError == [err |-> TRUE, v |-> FloatZero]

\* the float of sign neg that Nearest found
floatResult(neg, r) ==
    IF r.st = "range" THEN floatError ELSE [err |-> FALSE, v |-> FloatOf(neg, r.x)]

\* the float of the number n, which must be the whole of s
floatNumber(s, bits, n) ==
    IF ~n.ok \/ n.i # Len(s) + 1 THEN floatError
    ELSE floatResult(n.neg, Nearest(Spelled(n), bits))

floatParsed(s, bits, sp) ==
    IF sp.ok THEN [err |-> FALSE, v |-> sp.v] ELSE floatNumber(s, bits, readFloat(s))

\* strconv.ParseFloat(s, bits): the float nearest to the number s spells in
\* Go's syntax for floating-point literals, "inf" and "nan" included; an
\* error when s is not such a number or is beyond the largest float
ParseFloat(s, bits) == floatParsed(s, bits, special(s))

\* the first n digits of x, raised by one in the last place
RoundedUp(x, n) == Trim(Inc(SubSeq(x.d, 1, n)), x.dp + (Len(Inc(SubSeq(x.d, 1, n))) - n))

\* what the digits t lack to the next unit of the digit before them
Complement(t) == [j \in 1..Len(t) |-> IF j < Len(t) THEN 9 - t[j] ELSE 10 - t[j]]

\* gap lies within bound
Within(gap, bound, closed) == DecLess(gap, bound) \/ (closed /\ gap = bound)

RECURSIVE Shortest(_, _, _, _, _)
\* x cut to n digits or raised from them, whichever is within the bounds and
\* nearer; more digits when neither is. tail holds the digits after the n
ShortestOf(x, n, lo, hi, closed, tail) ==
    IF Within(Trim(tail, x.dp - n), lo, closed)
       /\ (~Within(Trim(Complement(tail), x.dp - n), hi, closed)
           \/ ~(tail[1] > 5 \/ (tail[1] = 5 /\ (Len(tail) > 1 \/ x.d[n] % 2 = 1))))
    THEN Trim(SubSeq(x.d, 1, n), x.dp)
    ELSE IF Within(Trim(Complement(tail), x.dp - n), hi, closed) THEN RoundedUp(x, n)
    ELSE Shortest(x, n + 1, lo, hi, closed)

\* the decimal of n digits or more that lies nearest to x among the shortest
\* ones within lo below x and hi above it (at the ends too when closed)
Shortest(x, n, lo, hi, closed) ==
    IF n >= Len(x.d) THEN x
    ELSE ShortestOf(x, n, lo, hi, closed, SubSeq(x.d, n + 1, Len(x.d)))

\* the shortest decimal that is nearer to x = s.y * 2^s.e than to the floats
\* next to it, which lie 2 * hi above and 2 * hi below, or hi below when s.y
\* is the lowest mantissa
ShortestBetween(x, s, hi, flt) ==
    Shortest(x, 1, IF s.y = flt.low /\ s.e > flt.emin THEN Half(hi) ELSE hi, hi,
             (IF Len(s.y.d) >= s.y.dp THEN s.y.d[s.y.dp] ELSE 0) % 2 = 0)

ShortestScaled(x, s, flt) == ShortestBetween(x, s, Shift(DecOne, s.e - 1), flt)

\* the shortest decimal that ParseFloat(_, bits) reads back as the float of
\* magnitude x
ShortestDecimal(x, bits) ==
    IF x.d = <<>> THEN x
    ELSE ShortestScaled(x, Scaled(x, floatInfo(bits)), floatInfo(bits))

Zeros(k) == [j \in 1..k |-> "0"]

\* %f of the digits ds with the point after the first dp of them
FormatDigits(ds, dp) ==
    IF ds = <<>> THEN <<"0">>
    ELSE IF dp <= 0 THEN <<"0", ".">> \o Zeros(-dp) \o ds
    ELSE IF dp >= Len(ds) THEN ds \o Zeros(dp - Len(ds))
    ELSE SubSeq(ds, 1, dp) \o <<".">> \o SubSeq(ds, dp + 1, Len(ds))

\* %f of the magnitude x
FormatDecimal(x) == FormatDigits(DigitChars(x.d), x.dp)

\* strconv.FormatFloat(v, 'f', -1, bits)
FormatFloat(v, bits) ==
    IF v.i = s_NaN THEN s_NaN
    ELSE IF v.i = s_Inf THEN (IF v.neg THEN <<"-">> ELSE <<"+">>) \o s_Inf
    ELSE (IF v.neg THEN <<"-">> ELSE <<>>) \o FormatDecimal(ShortestDecimal(Magnitude(v), bits))

\* strconv.ParseBool
ParseBool(s) ==
    IF s \in {<<"1">>, <<"t">>, <<"T">>, s_true, <<"T", "R", "U", "E">>,
              <<"T", "r", "u", "e">>}
    THEN [err |-> FALSE, v |-> TRUE]
    ELSE IF s \in {<<"0">>, <<"f">>, <<"F">>, s_false, <<"F", "A", "L", "S", "E">>,
                   <<"F", "a", "l", "s", "e">>}
    THEN [err |-> FALSE, v |-> FALSE]
    ELSE [err |-> TRUE, v |-> FALSE]

\* strconv.FormatBool
FormatBool(b) == IF b THEN s_true ELSE s_false

-----------------------------------------------------------------------------
(* tags.go *)

Tag(name, omit, ignore) == [Name |-> name, Omit |-> omit, Ignore |-> ignore]

\* the flags after the name: "omitempty" sets Omit, "ignore" sets Ignore
TagFlags(parts) == {TrimSpace(parts[i]) : i \in 2..Len(parts)}

parseTag(str0) ==
    LET tagOf(name, flags) ==
          Tag(IF name = <<"-">> THEN <<>> ELSE name,
              Tail(s_omitempty) \in flags,
              name = <<"-">> \/ <<"i", "g", "n", "o", "r", "e">> \in flags)
        split(parts) == tagOf(TrimSpace(parts[1]), TagFlags(parts))
        trimmed(str) == IF str = <<"-">> THEN Tag(<<>>, FALSE, TRUE)
                        ELSE split(Split(str, ","))
    IN trimmed(TrimSpace(str0))

\* mutant: the loop stops one field short and the last entry stays nil
deriveTags_SkipLast(n) ==
    LET named(f, t) ==
          IF ~t.Ignore /\ t.Name = <<>> THEN [t EXCEPT !.Name = f.name] ELSE t
        each(fs) == [i \in 1..Len(fs) |->
                       IF i = Len(fs) THEN [nil |-> TRUE]
                       ELSE named(fs[i], parseTag(fs[i].tag))]
    IN each(Fields(n))

\* the loop of tags(): one tag per field, named after the field when the
\* tag gives no name
deriveTags(n) ==
    LET named(f, t) ==
          IF ~t.Ignore /\ t.Name = <<>> THEN [t EXCEPT !.Name = f.name] ELSE t
        each(fs) == [i \in 1..Len(fs) |-> named(fs[i], parseTag(fs[i].tag))]
    IN each(Fields(n))

\* what tags() returns for a value of type n: the cached entry is the one
\* an earlier call derived for the same type
tags(n) == IF Kind(n) # "struct" THEN <<>> ELSE deriveTags(n)

\* mutant: an ignored field is found by its name like any other
findStructField_NoIgnore(n, key) ==
    LET first(hit) == IF hit = {} THEN 0 ELSE CHOOSE i \in hit : \A j \in hit : i <= j
        among(ts) == first({i \in 1..Len(ts) : ts[i].Name = key})
    IN among(tags(n))

\* findStructField: the index of the first field that is not ignored and is
\* named key; 0 stands for the invalid reflect.Value
findStructField(n, key) ==
    LET first(hit) == IF hit = {} THEN 0 ELSE CHOOSE i \in hit : \A j \in hit : i <= j
        among(ts) == first({i \in 1..Len(ts) : ~ts[i].Ignore /\ ts[i].Name = key})
    IN among(tags(n))

-----------------------------------------------------------------------------
(* decode.go: the decode engine.                                            *)
(*                                                                          *)
(* Each function takes the type name n and the value v of the reflect.Value *)
(* it is handed, and can tells whether that reflect.Value can be set (it is *)
(* addressable).  It returns [st, v]: st is "ok", "error" (the function     *)
(* returned an error) or "panic" (reflect or a type assertion panicked),    *)
(* v is the value afterwards, and seen holds the struct types tags() was    *)
(* called for on the way.                                                   *)

Ok(v) == [st |-> "ok", v |-> v, seen |-> {}]
Fail(v) == [st |-> "error", v |-> v, seen |-> {}]
Panic(v) == [st |-> "panic", v |-> v, seen |-> {}]

\* the result r of a call made after tags() was called for the types in seen
Saw(seen, r) == [r EXCEPT !.seen = @ \cup seen]

\* fixtures: func (a *Animal) UnmarshalForm(value string) error
AnimalOf(val) ==
    IF val = s_gopher THEN IntVal(FALSE, <<"1">>)
    ELSE IF val = s_zebra THEN IntVal(FALSE, <<"2">>)
    ELSE IntZero

\* the days of month m of year y
DaysIn(m, y) ==
    IF m = 2 THEN (IF y % 4 = 0 /\ (y % 100 # 0 \/ y % 400 = 0) THEN 29 ELSE 28)
    ELSE IF m \in {4, 6, 9, 11} THEN 30 ELSE 31

\* the days from January 1 of year 1 to January 1 of year y
DaysBeforeYear(y) ==
    365 * (y - 1) + (y - 1) \div 4 - (y - 1) \div 100 + (y - 1) \div 400

RECURSIVE DaysBeforeMonth(_, _)
\* the days from January 1 of year y to the first of month m
DaysBeforeMonth(m, y) ==
    IF m = 1 THEN 0 ELSE DaysBeforeMonth(m - 1, y) + DaysIn(m - 1, y)

\* the days from January 1 of year 1 to the day d of month m of year y
DaysSince(y, m, d) == DaysBeforeYear(y) + DaysBeforeMonth(m, y) + d - 1

RECURSIVE NatDigits(_)
\* the decimal digits of a natural number
NatDigits(k) ==
    IF k < 10 THEN <<Digits[k + 1]>>
    ELSE Append(NatDigits(k \div 10), Digits[(k % 10) + 1])

\* the last w decimal digits of k
Padded(k, w) == [j \in 1..w |-> Digits[((k \div 10^(w - j)) % 10) + 1]]

(* ---- int64 and uint64 quantities of package time: a sign and a numeral ---- *)

\* the value of a decimal digit
DigitOf(c) == CHOOSE k \in 0..9 : Digits[k + 1] = c

\* digit i of the numeral d counted from its end, the last being digit 0
DigitAt(d, i) == IF i < Len(d) THEN DigitOf(d[Len(d) - i]) ELSE 0

\* the four digits of the numeral d from digit 4j on, as a number
Chunk(d, j) ==
    DigitAt(d, 4 * j) + 10 * DigitAt(d, 4 * j + 1) + 100 * DigitAt(d, 4 * j + 2)
      + 1000 * DigitAt(d, 4 * j + 3)

\* the numeral without leading zeros
NatStrip(d) ==
    IF \A i \in 1..Len(d) : d[i] = "0" THEN <<"0">>
    ELSE SubSeq(d, CHOOSE i \in 1..Len(d) : d[i] # "0" /\ \A j \in 1..(i - 1) : d[j] = "0",
                Len(d))

\* a < b for numerals without leading zeros
NatLess(a, b) ==
    \/ Len(a) < Len(b)
    \/ /\ Len(a) = Len(b)
       /\ \E i \in 1..Len(a) : /\ DigitOf(a[i]) < DigitOf(b[i])
                               /\ \A j \in 1..(i - 1) : a[j] = b[j]

\* the carry into digit i of a + b: a lower digit overflows and the digits
\* between hand the carry on
Carry(a, b, i) ==
    IF \E j \in 0..(i - 1) : /\ DigitAt(a, j) + DigitAt(b, j) >= 10
                             /\ \A m \in (j + 1)..(i - 1) : DigitAt(a, m) + DigitAt(b, m) = 9
    THEN 1 ELSE 0

\* the n digits of a + b
AddDigits(a, b, n) ==
    [k \in 1..n |-> Digits[((DigitAt(a, n - k) + DigitAt(b, n - k) + Carry(a, b, n - k)) % 10) + 1]]

NatAdd(a, b) == NatStrip(AddDigits(a, b, (IF Len(a) < Len(b) THEN Len(b) ELSE Len(a)) + 1))

\* the borrow from digit i of a - b
Borrow(a, b, i) ==
    IF \E j \in 0..(i - 1) : /\ DigitAt(a, j) < DigitAt(b, j)
                             /\ \A m \in (j + 1)..(i - 1) : DigitAt(a, m) = DigitAt(b, m)
    THEN 1 ELSE 0

\* the n digits of a - b, for a >= b
SubDigits(a, b, n) ==
    [k \in 1..n |->
       Digits[((DigitAt(a, n - k) - DigitAt(b, n - k) - Borrow(a, b, n - k) + 10) % 10) + 1]]

NatSub(a, b) == NatStrip(SubDigits(a, b, Len(a)))

\* digit i of the sum, over the chunks k of a, of digits 4p to 4p + 3 of the
\* product of chunk k and m, shifted to chunk k + p; the product is below 2^31
MulDigit(a, m, p, i) ==
    IF i < 4 * p \/ 4 * p + (i % 4) > 9 THEN "0"
    ELSE Digits[(((Chunk(a, (i - 4 * p) \div 4) * m) \div 10^(4 * p + (i % 4))) % 10) + 1]

MulPart(a, m, p, n) == [k \in 1..n |-> MulDigit(a, m, p, n - k)]

\* a * m for a number m below 200000: the products of the chunks of a and m
\* have at most ten digits, which are added in three parts
NatMul(a, m) ==
    NatAdd(NatAdd(MulPart(a, m, 0, Len(a) + 3), MulPart(a, m, 1, Len(a) + 7)),
           MulPart(a, m, 2, Len(a) + 11))

RECURSIVE NatOf(_)
\* the number a short numeral denotes
NatOf(d) == IF d = <<>> THEN 0 ELSE 10 * NatOf(SubSeq(d, 1, Len(d) - 1)) + DigitOf(d[Len(d)])

\* the integer of sign neg and numeral d; zero has no sign
Big(neg, d) == IntVal(neg /\ d # <<"0">>, d)

\* a small integer
BigOf(k) == IntVal(k < 0, NatDigits(IF k < 0 THEN 0 - k ELSE k))

\* the seconds of a number of days, as an int64
SecondsOf(days) == Big(days < 0, NatMul(NatDigits(IF days < 0 THEN 0 - days ELSE days), 86400))

(* ---- seconds as package time counts them.  A count of seconds s is held
   as the era e, the day d of the era and the second q of the day, with
   s = (e * 146097 + d) * 86400 + q, 0 <= d < 146097 and 0 <= q < 86400:
   an era is the 400 years after which the calendar repeats.  The three
   numbers of an int64 or a uint64 stay below 2^31 ---- *)

\* the count that e, d and q denote when d and q are out of range
Norm(e, d, q) ==
    [e |-> e + ((d + (q \div 86400)) \div 146097),
     d |-> (d + (q \div 86400)) % 146097,
     q |-> q % 86400]

SecAdd(x, y) == Norm(x.e + y.e, x.d + y.d, x.q + y.q)

SecNeg(x) == Norm(0 - x.e, 0 - x.d, 0 - x.q)

SecLess(x, y) ==
    x.e < y.e \/ (x.e = y.e /\ (x.d < y.d \/ (x.d = y.d /\ x.q < y.q)))

\* the count of the numeral whose chunks are l0 to l4, at most 2^64: the
\* chunk k counts 10^(4k), and 10^8 = (1157) * 86400 + 35200,
\* 10^12 = (79 * 146097 + 32411) * 86400 + 6400 and
\* 10^16 = (792218 * 146097 + 67594) * 86400 + 64000
FromChunks(l0, l1, l2, l3, l4) ==
    Norm(79 * l3 + 792218 * l4,
         1157 * l2 + 32411 * l3 + 67594 * l4,
         l0 + 10000 * l1 + 35200 * l2 + 6400 * l3 + 64000 * l4)

\* the count of a number of seconds below 2^31 in size
FromInt(k) == Norm(0, 0, k)

SecSigned(neg, x) == IF neg THEN SecNeg(x) ELSE x

\* 2^63 = (730692561 * 146097 + 82883) * 86400 + 55808
Two63 == [e |-> 730692561, d |-> 82883, q |-> 55808]

\* 2^64 = (1461385123 * 146097 + 19670) * 86400 + 25216
Two64 == [e |-> 1461385123, d |-> 19670, q |-> 25216]

\* wallToInternal: (1884*365 + 1884/4 - 1884/100 + 1884/400) * 86400, the
\* seconds of 688161 days
wallToInternal == [e |-> 4, d |-> 103729, q |-> 0]

\* internalToUnix = -unixToInternal: the seconds of -719162 days
internalToUnix == [e |-> 0 - 5, d |-> 11323, q |-> 0]

\* unixToInternal + internalToAbsolute = 9223372028715321600: the seconds from
\* January 1 of year -292277022399 to the Unix epoch
UnixToAbsolute == [e |-> 730692560, d |-> 134774, q |-> 0]

\* the same from March 1 of year -292277022400, 306 days earlier
UnixToAbsoluteMarch == [e |-> 730692560, d |-> 135080, q |-> 0]

\* the days from January 1 to the first of month m in a year that is not a
\* leap year (the array daysBefore)
daysBefore(m) == <<0, 31, 59, 90, 120, 151, 181, 212, 243, 273, 304, 334, 365>>[m]

\* t.wall&hasMonotonic != 0: bit 63 of wall
hasMonotonic(t) == ~NatLess(t[1].d, Pow2(63))

NoParse == [ok |-> FALSE, v |-> 0, rest |-> <<>>]
Parsed(v, rest) == [ok |-> TRUE, v |-> v, rest |-> rest]
From(s, i) == SubSeq(s, i, Len(s))

\* the first position of s that holds a digit, a comma or a sign, or Len(s) + 1
nameEnd(s) ==
    IF \E i \in 1..Len(s) : IsDigit(s[i]) \/ s[i] \in {",", "-", "+"}
    THEN CHOOSE i \in 1..Len(s) :
           /\ IsDigit(s[i]) \/ s[i] \in {",", "-", "+"}
           /\ \A j \in 1..(i - 1) : ~(IsDigit(s[j]) \/ s[j] \in {",", "-", "+"})
    ELSE Len(s) + 1

\* the first position of s that holds ">"
quoteEnd(s) == CHOOSE i \in 1..Len(s) : s[i] = ">" /\ \A j \in 1..(i - 1) : s[j] # ">"

RECURSIVE tzsetNumFrom(_, _, _, _, _)
tzsetNumFrom(s, i, num, min, max) ==
    IF i > Len(s) THEN (IF num < min THEN NoParse ELSE Parsed(num, <<>>))
    ELSE IF ~IsDigit(s[i])
    THEN (IF i = 1 \/ num < min THEN NoParse ELSE Parsed(num, From(s, i)))
    ELSE IF 10 * num + DigitOf(s[i]) > max THEN NoParse
    ELSE tzsetNumFrom(s, i + 1, 10 * num + DigitOf(s[i]), min, max)

\* whether a further ":" part follows
MorePart(s) == s # <<>> /\ s[1] = ":"

NoRule == [ok |-> FALSE, kind |-> "", day |-> 0, week |-> 0, mon |-> 0, time |-> 0, rest |-> <<>>]

NoZone == [ok |-> FALSE, v |-> 0]

\* the rules of a string that names daylight time and gives none
DefaultRules ==
    <<",", "M", "3", ".", "2", ".", "0", ",", "M", "1", "1", ".", "1", ".", "0">>

\* the day of the week of the first of a month, Sunday being 0, by Zeller's
\* congruence: m1 is the month counted from March, sg the sign of the year
\* yy0 the month counts in, r its size modulo 2800, which fixes the century
\* yy1 = yy0 / 100 modulo 28 and the year of the century yy2 = yy0 % 100
zeller(m1, sg, r) ==
    (((26 * m1 - 2) \div 10) + 1 + sg * (r % 100) + sg * ((r % 100) \div 4)
       + sg * ((r \div 100) \div 4) - 2 * sg * (r \div 100)) % 7

\* the day of the month, from 0, of weekday r.day in week r.week of a month
\* of n days whose first such weekday is day d: the loop adds a week while
\* that stays within the month
weekDayFrom(r, d, n) ==
    IF r.week - 1 < (n - 1 - d) \div 7 THEN d + 7 * (r.week - 1) ELSE d + 7 * ((n - 1 - d) \div 7)

weekDay(r, dow, n) == weekDayFrom(r, IF r.day - dow < 0 THEN r.day - dow + 7 ELSE r.day - dow, n)

\* the offset in force at second ysec of the year, the rules taking effect at
\* startSec and endSec
tzsetPick(ysec, startSec, endSec, stdOff, dstOff) ==
    IF endSec < startSec
    THEN (IF ysec < endSec \/ ysec >= startSec THEN dstOff ELSE stdOff)
    ELSE (IF ysec < startSec \/ ysec >= endSec THEN stdOff ELSE dstOff)

\* a year of the size hi * 100000 + lo
YearOf(neg, hi, lo, cyear, month, day) ==
    [neg |-> neg /\ (hi # 0 \/ lo # 0), hi |-> hi, lo |-> lo, cyear |-> cyear,
     month |-> month, day |-> day]

\* 400 * n + y, for 0 <= y <= 400, in two parts
YearHi(n, y) == 400 * (n \div 100000) + ((400 * (n % 100000) + y) \div 100000)
YearLo(n, y) == (400 * (n % 100000) + y) % 100000

\* the size of the year of the date c modulo 2800
YearMod(c) == ((c.hi % 2800) * 2000 + c.lo) % 2800

\* sec % secondsPerDay, which has the sign of sec
secondOfDay(s) == IF s.e < 0 /\ s.q # 0 THEN s.q - 86400 ELSE s.q

\* the day of the year of the date c, January 1 being 0
yday(c) ==
    daysBefore(c.month) + (IF DaysIn(2, c.cyear) = 29 /\ c.month > 2 THEN 1 ELSE 0) + c.day - 1

firstZoneUsed(l) == \E i \in 1..Len(l[3].e) : l[3].e[i][2] = IntZero

RECURSIVE standardBefore(_, _)
\* the last zone at or before index zi that is not daylight time, or -1
standardBefore(l, zi) ==
    IF zi < 0 THEN 0 - 1
    ELSE IF ~l[2].e[zi + 1][3] THEN zi
    ELSE standardBefore(l, zi - 1)

\* the first zone that is not daylight time, or 0
firstStandard(l) ==
    IF \E i \in 1..Len(l[2].e) : ~l[2].e[i][3]
    THEN (CHOOSE i \in 1..Len(l[2].e) :
            ~l[2].e[i][3] /\ \A j \in 1..(i - 1) : l[2].e[j][3]) - 1
    ELSE 0

lookupFirstZone(l) ==
    IF ~firstZoneUsed(l) THEN 0
    ELSE IF Len(l[3].e) = 0 THEN firstStandard(l)
    ELSE IF l[2].e[NatOf(l[3].e[1][2].d) + 1][3]
            /\ standardBefore(l, NatOf(l[3].e[1][2].d) - 1) >= 0
    THEN standardBefore(l, NatOf(l[3].e[1][2].d) - 1)
    ELSE firstStandard(l)

\* appendInt(b, year, 4): the sign and at least four digits
yearDigits(c) ==
    IF c.hi = 0 THEN NatStrip(Padded(c.lo, 5)) ELSE NatStrip(Padded(c.hi, 7)) \o Padded(c.lo, 5)

padYear(d) == [j \in 1..(IF Len(d) < 4 THEN 4 - Len(d) ELSE 0) |-> "0"] \o d

dateText(c) ==
    (IF c.neg THEN <<"-">> ELSE <<>>) \o padYear(yearDigits(c))
      \o <<".">> \o Padded(c.month, 2) \o <<".">> \o Padded(c.day, 2)

(* ---- the functions of package time that Format reaches.  They are the
   cases of the one operator time, which takes the name of a function and a
   record of its arguments: time("absDate", [days |-> n]) is absDate(n) ---- *)

RECURSIVE time(_, _)
time(f, a) ==
    CASE f = "FromBig" ->
           \* the count of the int64 or uint64 x
           SecSigned(a.x.neg, FromChunks(Chunk(a.x.d, 0), Chunk(a.x.d, 1), Chunk(a.x.d, 2),
                                      Chunk(a.x.d, 3), Chunk(a.x.d, 4)))
      [] f = "Int64" ->
           \* the int64 that x, the sum of two int64, wraps to
           IF SecLess(a.x, SecNeg(Two63)) THEN SecAdd(a.x, Two64)
           ELSE IF SecLess(a.x, Two63) THEN a.x
           ELSE SecAdd(a.x, SecNeg(Two64))
      [] f = "Add64" ->
           \* x + y of two int64
           time("Int64", [x |-> SecAdd(a.x, a.y)])
      [] f = "Uint64" ->
           \* the conversion uint64(x) of an int64
           IF a.x.e < 0 THEN SecAdd(a.x, Two64) ELSE a.x
      [] f = "Div" ->
           \* the quotient of the numeral a, of at most 20 digits, by the
           \* number m, below 200000: the long division in chunks, from chunk
           \* j down, with the quotient q and the remainder r so far
           IF a.j < 0 THEN NatStrip(a.q)
           ELSE time("Div", [a |-> a.a, m |-> a.m, j |-> a.j - 1,
                             q |-> a.q \o Padded((10000 * a.r + Chunk(a.a, a.j)) \div a.m, 4),
                             r |-> (10000 * a.r + Chunk(a.a, a.j)) % a.m])
      [] f = "wallSeconds" ->
           \* t.wall<<1>>(nsecShift+1): the 33 bits above the 30 bits of
           \* nanoseconds, wall without bit 63 divided by 2^15 twice
           time("Div", [a |-> time("Div", [a |-> NatSub(a.t[1].d, Pow2(63)), m |-> 32768,
                                           j |-> 4, q |-> <<>>, r |-> 0]),
                        m |-> 32768, j |-> 4, q |-> <<>>, r |-> 0])
      [] f = "sec" ->
           \* (*Time).sec: the seconds since January 1 of year 1
           IF hasMonotonic(a.t)
           THEN SecAdd(wallToInternal,
                       time("FromBig", [x |-> IntVal(FALSE, time("wallSeconds", a))]))
           ELSE time("FromBig", [x |-> a.t[2]])
      [] f = "unixSec" ->
           \* (*Time).unixSec: sec() + internalToUnix
           time("Add64", [x |-> time("sec", a), y |-> internalToUnix])
      [] f = "abs" ->
           \* the seconds from the zero of absolute time to the Unix second s
           \* shifted by off, as a uint64.  Absolute time starts on January 1
           \* of year -292277022399 in the releases up to 1.22 and in some
           \* later ones, and on March 1 of year -292277022400 in the newest
           \* (march)
           time("Uint64",
                [x |-> time("Add64", [x |-> time("Add64", [x |-> a.s, y |-> a.off]),
                                      y |-> IF a.march THEN UnixToAbsoluteMarch
                                            ELSE UnixToAbsolute])])
      [] f = "days" ->
           \* the era and the day of the era of the absolute second abs,
           \* counted from March 1 of year -292277022400
           IF a.march THEN a.abs ELSE Norm(a.abs.e, a.abs.d + 306, 0)
      [] f = "absDays" ->
           time("days", [abs |-> time("abs", a), march |-> a.march])
      [] f = "civilYear" ->
           \* the date in the year y of the era, or the next when the month
           \* is January or February: the eras before era 730692556 are
           \* before year 0
           IF a.era >= 730692556
           THEN YearOf(FALSE, YearHi(a.era - 730692556, a.y), YearLo(a.era - 730692556, a.y),
                       a.y % 400, a.month, a.day)
           ELSE YearOf(TRUE, YearHi(730692555 - a.era, 400 - a.y),
                       YearLo(730692555 - a.era, 400 - a.y), a.y % 400, a.month, a.day)
      [] f = "civilMonth" ->
           \* the date of day doy of the year that starts on March 1, year
           \* yoe of the era, whose month counted from March is mp
           time("civilYear", [era |-> a.era, y |-> a.yoe + (IF a.mp >= 10 THEN 1 ELSE 0),
                              month |-> IF a.mp < 10 THEN a.mp + 3 ELSE a.mp - 9,
                              day |-> a.doy - (153 * a.mp + 2) \div 5 + 1])
      [] f = "civilDay" ->
           time("civilMonth", [era |-> a.era, yoe |-> a.yoe, doy |-> a.doy,
                               mp |-> (5 * a.doy + 2) \div 153])
      [] f = "civilEra" ->
           time("civilDay", [era |-> a.era, yoe |-> a.yoe,
                             doy |-> a.doe - (365 * a.yoe + a.yoe \div 4 - a.yoe \div 100)])
      [] f = "absDate" ->
           \* the year, month and day of the day d of the era e
           time("civilEra",
                [era |-> a.days.e, doe |-> a.days.d,
                 yoe |-> (a.days.d - a.days.d \div 1460 + a.days.d \div 36524
                            - a.days.d \div 146096) \div 365])
      [] f = "tzsetName" ->
           IF a.s = <<>> THEN NoParse
           ELSE IF a.s[1] # "<"
           THEN (IF nameEnd(a.s) - 1 < 3 THEN NoParse
                 ELSE Parsed(SubSeq(a.s, 1, nameEnd(a.s) - 1), From(a.s, nameEnd(a.s))))
           ELSE IF \E i \in 1..Len(a.s) : a.s[i] = ">"
           THEN Parsed(SubSeq(a.s, 2, quoteEnd(a.s) - 1), From(a.s, quoteEnd(a.s) + 1))
           ELSE NoParse
      [] f = "tzsetNum" ->
           IF a.s = <<>> THEN NoParse ELSE tzsetNumFrom(a.s, 1, 0, a.min, a.max)
      [] f = "offsetSeconds" ->
           IF ~a.p.ok THEN NoParse ELSE Parsed(a.sg * (a.off + a.p.v), a.p.rest)
      [] f = "offsetMinutes" ->
           IF ~a.p.ok THEN NoParse
           ELSE IF ~MorePart(a.p.rest) THEN Parsed(a.sg * (a.off + a.p.v * 60), a.p.rest)
           ELSE time("offsetSeconds",
                     [sg |-> a.sg, off |-> a.off + a.p.v * 60,
                      p |-> time("tzsetNum", [s |-> Tail(a.p.rest), min |-> 0, max |-> 59])])
      [] f = "offsetHours" ->
           IF ~a.p.ok THEN NoParse
           ELSE IF ~MorePart(a.p.rest) THEN Parsed(a.sg * a.p.v * 3600, a.p.rest)
           ELSE time("offsetMinutes",
                     [sg |-> a.sg, off |-> a.p.v * 3600,
                      p |-> time("tzsetNum", [s |-> Tail(a.p.rest), min |-> 0, max |-> 59])])
      [] f = "tzsetOffset" ->
           IF a.s = <<>> THEN NoParse
           ELSE IF a.s[1] \in {"-", "+"}
           THEN time("offsetHours",
                     [sg |-> IF a.s[1] = "-" THEN 0 - 1 ELSE 1,
                      p |-> time("tzsetNum", [s |-> Tail(a.s), min |-> 0, max |-> 168])])
           ELSE time("offsetHours",
                     [sg |-> 1, p |-> time("tzsetNum", [s |-> a.s, min |-> 0, max |-> 168])])
      [] f = "ruleTime" ->
           \* the optional /time that ends the rule r; the default is 2
           \* hours.  a.o is the offset parsed after the "/"
           IF ~a.o.ok THEN NoRule
           ELSE [a.r EXCEPT !.time = a.o.v, !.rest = a.o.rest]
      [] f = "rule" ->
           \* the rule of the kind, month and week given and the day parsed
           IF ~a.p.ok THEN NoRule
           ELSE IF a.p.rest = <<>> \/ a.p.rest[1] # "/"
           THEN [ok |-> TRUE, kind |-> a.kind, day |-> a.p.v, week |-> a.week, mon |-> a.mon,
                 time |-> 7200, rest |-> a.p.rest]
           ELSE time("ruleTime",
                     [r |-> [ok |-> TRUE, kind |-> a.kind, day |-> a.p.v, week |-> a.week,
                             mon |-> a.mon, time |-> 0, rest |-> a.p.rest],
                      o |-> time("tzsetOffset", [s |-> Tail(a.p.rest)])])
      [] f = "ruleWeek" ->
           IF ~a.p.ok \/ a.p.rest = <<>> THEN NoRule
           ELSE IF a.p.rest[1] # "." THEN NoRule
           ELSE time("rule", [kind |-> "M", mon |-> a.mon, week |-> a.p.v,
                              p |-> time("tzsetNum", [s |-> Tail(a.p.rest), min |-> 0, max |-> 6])])
      [] f = "ruleMonth" ->
           IF ~a.p.ok \/ a.p.rest = <<>> THEN NoRule
           ELSE IF a.p.rest[1] # "." THEN NoRule
           ELSE time("ruleWeek", [mon |-> a.p.v,
                                  p |-> time("tzsetNum", [s |-> Tail(a.p.rest), min |-> 1, max |-> 5])])
      [] f = "tzsetRule" ->
           IF a.s = <<>> THEN NoRule
           ELSE IF a.s[1] = "J"
           THEN time("rule", [kind |-> "J", mon |-> 0, week |-> 0,
                              p |-> time("tzsetNum", [s |-> Tail(a.s), min |-> 1, max |-> 365])])
           ELSE IF a.s[1] = "M"
           THEN time("ruleMonth", [p |-> time("tzsetNum", [s |-> Tail(a.s), min |-> 1, max |-> 12])])
           ELSE time("rule", [kind |-> "D", mon |-> 0, week |-> 0,
                              p |-> time("tzsetNum", [s |-> a.s, min |-> 0, max |-> 365])])
      [] f = "firstWeekday" ->
           \* the day of the week of the first of month mon of the year of
           \* the date c; January and February count in the year before
           IF a.mon > 2
           THEN zeller(((a.mon + 9) % 12) + 1, IF a.c.neg THEN 0 - 1 ELSE 1, YearMod(a.c))
           ELSE IF ~a.c.neg /\ (a.c.hi # 0 \/ a.c.lo # 0)
           THEN zeller(((a.mon + 9) % 12) + 1, 1, (YearMod(a.c) + 2799) % 2800)
           ELSE zeller(((a.mon + 9) % 12) + 1, 0 - 1, (YearMod(a.c) + 1) % 2800)
      [] f = "tzruleTime" ->
           \* the seconds from the start of the year, in UTC, at which the
           \* rule r takes effect; c is a date of the year, off the offset in
           \* force before
           a.r.time - a.off +
           (CASE a.r.kind = "J" ->
                   (a.r.day - 1) * 86400
                     + (IF DaysIn(2, a.c.cyear) = 29 /\ a.r.day >= 60 THEN 86400 ELSE 0)
              [] a.r.kind = "D" -> a.r.day * 86400
              [] OTHER ->
                   (weekDay(a.r, time("firstWeekday", [c |-> a.c, mon |-> a.r.mon]),
                            DaysIn(a.r.mon, a.c.cyear))
                      + daysBefore(a.r.mon)) * 86400
                   + (IF DaysIn(2, a.c.cyear) = 29 /\ a.r.mon > 2 THEN 86400 ELSE 0))
      [] f = "tzsetYear" ->
           \* the offset in force at the Unix second s, of the date c
           [ok |-> TRUE,
            v |-> tzsetPick(yday(a.c) * 86400 + secondOfDay(a.s),
                            time("tzruleTime", [c |-> a.c, r |-> a.start, off |-> a.stdOff]),
                            time("tzruleTime", [c |-> a.c, r |-> a.end, off |-> a.dstOff]),
                            a.stdOff, a.dstOff)]
      [] f = "tzsetEndRule" ->
           IF ~a.end.ok \/ a.end.rest # <<>> THEN NoZone
           ELSE time("tzsetYear",
                     [s |-> a.s, stdOff |-> a.stdOff, dstOff |-> a.dstOff, start |-> a.start,
                      end |-> a.end,
                      c |-> time("absDate", [days |-> time("absDays", [s |-> a.s, off |-> FromInt(0),
                                                                       march |-> a.march])])])
      [] f = "tzsetStartRule" ->
           IF ~a.start.ok \/ a.start.rest = <<>> THEN NoZone
           ELSE IF a.start.rest[1] # "," THEN NoZone
           ELSE time("tzsetEndRule",
                     [s |-> a.s, march |-> a.march, stdOff |-> a.stdOff, dstOff |-> a.dstOff,
                      start |-> a.start, end |-> time("tzsetRule", [s |-> Tail(a.start.rest)])])
      [] f = "tzsetRules" ->
           IF a.r[1] \notin {",", ";"} THEN NoZone
           ELSE time("tzsetStartRule",
                     [s |-> a.s, march |-> a.march, stdOff |-> a.stdOff, dstOff |-> a.dstOff,
                      start |-> time("tzsetRule", [s |-> Tail(a.r)])])
      [] f = "tzsetDstOffset" ->
           IF ~a.o.ok THEN NoZone
           ELSE time("tzsetRules",
                     [s |-> a.s, march |-> a.march, stdOff |-> a.stdOff, dstOff |-> 0 - a.o.v,
                      r |-> IF a.o.rest = <<>> THEN DefaultRules ELSE a.o.rest])
      [] f = "tzsetDst" ->
           IF ~a.n.ok THEN NoZone
           ELSE IF a.n.rest = <<>> \/ a.n.rest[1] = ","
           THEN time("tzsetRules",
                     [s |-> a.s, march |-> a.march, stdOff |-> a.stdOff,
                      dstOff |-> a.stdOff + 3600,
                      r |-> IF a.n.rest = <<>> THEN DefaultRules ELSE a.n.rest])
           ELSE time("tzsetDstOffset",
                     [s |-> a.s, march |-> a.march, stdOff |-> a.stdOff,
                      o |-> time("tzsetOffset", [s |-> a.n.rest])])
      [] f = "tzsetStd" ->
           IF ~a.o.ok THEN NoZone
           ELSE IF a.o.rest = <<>> THEN [ok |-> TRUE, v |-> 0 - a.o.v]
           ELSE IF a.o.rest[1] = "," THEN [ok |-> TRUE, v |-> 0 - a.o.v]
           ELSE time("tzsetDst", [s |-> a.s, march |-> a.march, stdOff |-> 0 - a.o.v,
                                  n |-> time("tzsetName", [s |-> a.o.rest])])
      [] f = "tzsetStdName" ->
           IF ~a.n.ok THEN NoZone
           ELSE time("tzsetStd", [s |-> a.s, march |-> a.march,
                                  o |-> time("tzsetOffset", [s |-> a.n.rest])])
      [] f = "tzset" ->
           \* the offset the TZ string str gives at Unix second s, if it
           \* parses
           time("tzsetStdName", [s |-> a.s, march |-> a.march,
                                 n |-> time("tzsetName", [s |-> a.str])])
      [] f = "cacheHit" ->
           \* l.cacheZone != nil && l.cacheStart <= sec && sec < l.cacheEnd
           /\ ~a.l[7].nil
           /\ ~SecLess(a.s, time("FromBig", [x |-> a.l[5]]))
           /\ SecLess(a.s, time("FromBig", [x |-> a.l[6]]))
      [] f = "searchTx" ->
           \* the binary search for the last transition at or before s,
           \* between the indexes lo and hi
           IF a.hi - a.lo <= 1 THEN a.lo
           ELSE IF SecLess(a.s, time("FromBig", [x |-> a.l[3].e[((a.lo + a.hi) \div 2) + 1][1]]))
           THEN time("searchTx", [l |-> a.l, s |-> a.s, lo |-> a.lo, hi |-> (a.lo + a.hi) \div 2])
           ELSE time("searchTx", [l |-> a.l, s |-> a.s, lo |-> (a.lo + a.hi) \div 2, hi |-> a.hi])
      [] f = "zone" ->
           \* the offset of zone i
           time("FromBig", [x |-> a.l[2].e[a.i + 1][2]])
      [] f = "extendOffset" ->
           \* the offset of the extend string, if it parses, and else of the
           \* zone of the transition: z is what tzset returns
           IF a.z.ok THEN FromInt(a.z.v)
           ELSE time("zone", [l |-> a.l, i |-> NatOf(a.l[3].e[a.lo + 1][2].d)])
      [] f = "txOffset" ->
           \* the offset after transition lo: of the extend string after the
           \* last transition, and else of the transition's zone
           IF a.lo = Len(a.l[3].e) - 1 /\ a.l[4] # <<>>
           THEN time("extendOffset",
                     [l |-> a.l, lo |-> a.lo,
                      z |-> time("tzset", [str |-> a.l[4], s |-> a.s, march |-> a.march])])
           ELSE time("zone", [l |-> a.l, i |-> NatOf(a.l[3].e[a.lo + 1][2].d)])
      [] f = "lookup" ->
           \* the offset (*Location).lookup returns for the Unix second s
           IF Len(a.l[2].e) = 0 THEN FromInt(0)
           ELSE IF time("cacheHit", a) THEN time("FromBig", [x |-> a.l[7].p[2]])
           ELSE IF Len(a.l[3].e) = 0
           THEN time("zone", [l |-> a.l, i |-> lookupFirstZone(a.l)])
           ELSE IF SecLess(a.s, time("FromBig", [x |-> a.l[3].e[1][1]]))
           THEN time("zone", [l |-> a.l, i |-> lookupFirstZone(a.l)])
           ELSE time("txOffset", [l |-> a.l, s |-> a.s, march |-> a.march,
                                  lo |-> time("searchTx", [l |-> a.l, s |-> a.s, lo |-> 0,
                                                           hi |-> Len(a.l[3].e)])])
      [] f = "zoneOffset" ->
           \* the offset locabs adds to the Unix second s of a time whose
           \* Location is loc: none for a nil Location, which is UTC
           IF a.loc.nil THEN FromInt(0)
           ELSE IF time("cacheHit", [l |-> a.loc.p, s |-> a.s])
           THEN time("FromBig", [x |-> a.loc.p[7].p[2]])
           ELSE time("lookup", [l |-> a.loc.p, s |-> a.s, march |-> a.march])
      [] f = "locabs" ->
           time("absDays", [s |-> a.s, off |-> time("zoneOffset", a), march |-> a.march])
      [] f = "Format" ->
           dateText(time("absDate",
                         [days |-> time("locabs", [loc |-> a.t[3], march |-> a.march,
                                                   s |-> time("unixSec", [t |-> a.t])])]))

\* time.Time.Format("2006.01.02")
Format(t, march) == time("Format", [t |-> t, march |-> march])

\* the number the digits of b from i to j denote
DateField(b, i, j) ==
    IF i = j THEN HexVal(b[i])
    ELSE IF j = i + 1 THEN 10 * HexVal(b[i]) + HexVal(b[j])
    ELSE 1000 * HexVal(b[i]) + 100 * HexVal(b[i + 1]) + 10 * HexVal(b[i + 2]) + HexVal(b[j])

\* the time.Time that time.Parse("2006.01.02", b) returns for a valid b:
\* midnight UTC of the date
MyDateOf(b) ==
    <<IntZero,
      SecondsOf(DaysSince(DateField(b, 1, 4), DateField(b, 6, 7), DateField(b, 9, 10))),
      NilPtr>>

\* time.Parse("2006.01.02", b) returns no error: four digits, a month and a
\* day of that month, two digits each, with dots between
ValidDate(b) ==
    LET dig(i) == PosIn(Digits, b[i]) - 1
        day(y, m, d) == m \in 1..12 /\ d >= 1 /\ d <= DaysIn(m, y)
    IN /\ Len(b) = 10
       /\ b[5] = "." /\ b[8] = "."
       /\ \A i \in {1, 2, 3, 4, 6, 7, 9, 10} : PosIn(Digits, b[i]) > 0
       /\ day(1000 * dig(1) + 100 * dig(2) + 10 * dig(3) + dig(4),
              10 * dig(6) + dig(7), 10 * dig(9) + dig(10))

\* the UnmarshalForm hook of type n: (*MyDate).UnmarshalForm returns the
\* error of time.Parse and leaves *d alone, (*Animal).UnmarshalForm
\* never fails
UnmarshalForm(n, v, val) ==
    IF n = "MyDate" THEN (IF ValidDate(val) THEN Ok(MyDateOf(val)) ELSE Fail(v))
    ELSE Ok(AnimalOf(val))

\* mutant: the empty string is parsed like any other numeral
setInt_Strict(n, v, can, s) ==
    LET set(p) == IF p.err THEN Fail(v) ELSE IF can THEN Ok(p.v) ELSE Panic(v)
    IN set(ParseInt(s, Bits(n)))

setInt(n, v, can, s) ==
    IF s = <<>> THEN (IF can THEN Ok(IntZero) ELSE Panic(v))
    ELSE LET set(p) == IF p.err THEN Fail(v) ELSE IF can THEN Ok(p.v) ELSE Panic(v)
         IN set(ParseInt(s, Bits(n)))

setUint(n, v, can, s) ==
    IF s = <<>> THEN (IF can THEN Ok(IntZero) ELSE Panic(v))
    ELSE LET set(p) == IF p.err THEN Fail(v) ELSE IF can THEN Ok(p.v) ELSE Panic(v)
         IN set(ParseUint(s, Bits(n)))

\* the value v takes the number p that strconv parsed
setParsed(v, can, p) == IF p.err THEN Fail(v) ELSE IF can THEN Ok(p.v) ELSE Panic(v)

setFloat(n, v, can, s) ==
    IF s = <<>> THEN (IF can THEN Ok(FloatZero) ELSE Panic(v))
    ELSE setParsed(v, can, ParseFloat(s, Bits(n)))

parseBool(n, v, can, s) ==
    IF s = <<>> THEN (IF can THEN Ok(FALSE) ELSE Panic(v))
    ELSE LET set(p) == IF p.err THEN Fail(v) ELSE IF can THEN Ok(p.v) ELSE Panic(v)
         IN set(ParseBool(s))

setScalar(n, v, can, val) ==
    CASE Kind(n) = "string" -> (IF can THEN Ok(val) ELSE Panic(v))
      [] Kind(n) = "int" -> setInt(n, v, can, val)
      [] Kind(n) = "uint" -> setUint(n, v, can, val)
      [] Kind(n) = "float" -> setFloat(n, v, can, val)
      [] Kind(n) = "bool" -> parseBool(n, v, can, val)
      [] OTHER -> Fail(v)

\* asUnmarshaler: the hook has a pointer receiver, so it is found through
\* v.Addr() only
asUnmarshaler(n, can) == can /\ TypeOf(n).um

assignLeaf(n, v, can, val) ==
    IF asUnmarshaler(n, can) THEN UnmarshalForm(n, v, val)
    ELSE setScalar(n, v, can, val)

(* The reflect.Value handed to the infer functions: invalid, or holding   *)
(* the interface value i, either as a Value of kind Interface (wrapped:   *)
(* it came from MapIndex or a field) or as reflect.ValueOf(i).            *)
InvalidValue == [valid |-> FALSE, wrapped |-> FALSE, i |-> NilIface]
Wrapped(i) == [valid |-> TRUE, wrapped |-> TRUE, i |-> i]
ValueOf(i) == IF i.nil THEN InvalidValue
              ELSE [valid |-> TRUE, wrapped |-> FALSE, i |-> i]

\* reflect.Value.IsNil panics on a kind that cannot be nil
IsNilPanics(ev) ==
    ~ev.wrapped /\ Kind(ev.i.dt) \notin {"map", "slice", "ptr", "iface", "chan", "func"}
IsNil(ev) == IF ev.wrapped THEN ev.i.nil ELSE ev.i.dv.nil

RECURSIVE inferInterfaceValue(_, _, _)
RECURSIVE inferSliceValue(_, _, _)
RECURSIVE inferMapValue(_, _, _, _)

\* mutant: the new element is put in front of the sequence
inferSliceValue_Prepend(ev, path, val) ==
    IF ev.valid /\ IsNilPanics(ev) THEN Panic(ev.i)
    ELSE
      LET has == ev.valid /\ ~IsNil(ev)
          slice == IF has THEN ev.i.dv.e ELSE <<>>
          grow(elem) ==
            IF elem.st # "ok" THEN elem
            ELSE Ok(Iface("[]interface{}", SliceVal(<<elem.v>> \o slice)))
      IN IF has /\ ev.i.dt # "[]interface{}" THEN Panic(ev.i)
         ELSE grow(inferInterfaceValue(InvalidValue, Tail(path), val))

\* mutant: a leaf that reads as a numeral is stored as an integer
inferInterfaceValue_Sniff(ev, path, val) ==
    IF Len(path) = 0
    THEN IF ParseInt(val, 64).err THEN Ok(Iface("string", val))
         ELSE Ok(Iface("int", ParseInt(val, 64).v))
    ELSE IF path[1].Index THEN inferSliceValue(ev, path, val)
    ELSE inferMapValue(ev, path[1], path, val)

inferInterfaceValue(ev, path, val) ==
    IF Len(path) = 0 THEN Ok(Iface("string", val))
    ELSE IF path[1].Index THEN inferSliceValue(ev, path, val)
    ELSE inferMapValue(ev, path[1], path, val)

inferSliceValue(ev, path, val) ==
    IF ev.valid /\ IsNilPanics(ev) THEN Panic(ev.i)
    ELSE
      LET has == ev.valid /\ ~IsNil(ev)
          slice == IF has THEN ev.i.dv.e ELSE <<>>
          grow(elem) ==
            IF elem.st # "ok" THEN elem
            ELSE Ok(Iface("[]interface{}", SliceVal(Append(slice, elem.v))))
      IN IF has /\ ev.i.dt # "[]interface{}" THEN Panic(ev.i)
         ELSE grow(inferInterfaceValue(InvalidValue, Tail(path), val))

\* mutant: the entry is put into a new map, whatever map there was
inferMapValue_Fresh(ev, seg, path, val) ==
    IF ev.valid /\ IsNilPanics(ev) THEN Panic(ev.i)
    ELSE
      LET has == ev.valid /\ ~IsNil(ev)
          put(elem) ==
            IF elem.st # "ok" THEN elem
            ELSE Ok(Iface("map[string]interface{}",
                          MapVal(MapPut(<<>>, seg.Key, elem.v))))
      IN IF has /\ ev.i.dt # "map[string]interface{}" THEN Panic(ev.i)
         ELSE put(inferInterfaceValue(InvalidValue, Tail(path), val))

\* inferMapValue
inferMapValue(ev, seg, path, val) ==
    IF ev.valid /\ IsNilPanics(ev) THEN Panic(ev.i)
    ELSE
      LET has == ev.valid /\ ~IsNil(ev)
          m == IF has THEN ev.i.dv.m ELSE <<>>
          old == IF seg.Key \in DOMAIN m THEN ValueOf(m[seg.Key]) ELSE InvalidValue
          \* a Value of kind Interface that holds a nil map is not nil: m
          \* is that nil map, and the write to it panics
          put(elem) ==
            IF elem.st # "ok" THEN elem
            ELSE IF has /\ ev.i.dv.nil THEN Panic(ev.i)
            ELSE Ok(Iface("map[string]interface{}",
                          MapVal(MapPut(m, seg.Key, elem.v))))
      IN IF has /\ ev.i.dt # "map[string]interface{}" THEN Panic(ev.i)
         ELSE put(inferInterfaceValue(old, Tail(path), val))

RECURSIVE assignDeref(_, _, _, _, _, _)
RECURSIVE assignKind(_, _, _, _, _)
RECURSIVE assignStructField(_, _, _, _, _, _)
RECURSIVE assignMapValue(_, _, _, _, _, _)
RECURSIVE assignSliceValue(_, _, _, _, _, _)
RECURSIVE assignInterfaceValue(_, _, _, _, _)

\* deref applied d times, then the rest of assign: a nil pointer is set to
\* a new value, which needs a settable pointer; the value pointed to is
\* addressable
assignDeref(d, n, v, can, path, val) ==
    LET pointer(r) == [r EXCEPT !.v = PtrVal(r.v)]
        deref(t) ==
          IF d > 0 /\ t.k = "ptr"
          THEN IF v.nil /\ ~can THEN Panic(v)
               ELSE pointer(assignDeref(d - 1, t.elem,
                                        IF v.nil THEN Zero(t.elem) ELSE v.p,
                                        TRUE, path, val))
          ELSE assignKind(n, v, can, path, val)
    IN deref(TypeOf(n))

assign(n, v, can, path, val) == assignDeref(1, n, v, can, path, val)

\* assign after deref: the leaf, or the dispatch on the kind
assignKind(n, v, can, path, val) ==
    LET switch(k) ==
          CASE k = "struct" ->
                 assignStructField(n, v, can, path[1].Key, Tail(path), val)
            [] k = "map" -> assignMapValue(n, v, can, path[1], Tail(path), val)
            [] k = "slice" -> assignSliceValue(n, v, can, path[1], Tail(path), val)
            [] k = "iface" -> assignInterfaceValue(n, v, can, path, val)
            [] OTHER -> Fail(v)
    IN IF Len(path) = 0 THEN assignLeaf(n, v, can, val)
       ELSE switch(Kind(n))

\* a field is exported when its name starts with an upper-case letter
Exported(f) == PosIn(UpperCase, Head(f.name)) > 0

\* a field of a struct that cannot be set cannot be set either, and neither
\* can an unexported field (CanSet); findStructField calls tags() for the
\* struct
assignStructField(n, v, can, key, path, val) ==
    LET field(i) ==
          LET set(r) == [r EXCEPT !.v = [v EXCEPT ![i] = r.v]]
          IN IF i = 0 \/ ~can \/ ~Exported(Fields(n)[i]) THEN Fail(v)
             ELSE set(assign(Fields(n)[i].type, v[i], TRUE, path, val))
    IN Saw({n}, field(findStructField(n, key)))

assignMapValue(n, v0, can, seg, path, val) ==
    LET key == seg.Key
        made(v) ==
          LET has == key \in DOMAIN v.m
              put(x) == MapVal(MapPut(v.m, key, x))
              \* a dynamically typed element is inferred and stored
              inferred(r) == [r EXCEPT !.v = IF r.st = "ok" THEN put(r.v) ELSE v]
              \* a sequence element gets val appended, whatever path is left
              appended(r) ==
                [r EXCEPT !.v =
                    IF r.st = "ok"
                    THEN put(SliceVal(Append(IF has THEN v.m[key].e ELSE <<>>, r.v)))
                    ELSE v]
              \* an element read with MapIndex cannot be set; a new one
              \* can.  What a pointer or map element refers to is changed
              \* in place, also when the assignment then fails.
              stored(r, ek) ==
                [r EXCEPT !.v = IF r.st = "ok" THEN put(r.v)
                                ELSE IF has /\ ek \in {"ptr", "map"} THEN put(r.v)
                                ELSE v]
              switch(et, ek) ==
                CASE ek = "iface" ->
                       inferred(inferInterfaceValue(
                           IF has THEN Wrapped(v.m[key]) ELSE InvalidValue, path, val))
                  [] ek = "slice" ->
                       appended(assignLeaf(Elem(et), Zero(Elem(et)), TRUE, val))
                  [] OTHER ->
                       stored(assignDeref(2, et, IF has THEN v.m[key] ELSE Zero(et),
                                          ~has, path, val), ek)
          IN switch(Elem(n), Kind(Elem(n)))
    IN IF v0.nil /\ ~can THEN Panic(v0)
       ELSE made(IF v0.nil THEN MapVal(<<>>) ELSE v0)

\* mutant: the new element is appended although its assignment failed
assignSliceValue_Grow(n, v, can, seg, path, val) ==
    LET grow(r) == IF r.st # "ok" THEN [r EXCEPT !.v = SliceVal(Append(v.e, r.v))]
                   ELSE IF ~can THEN Saw(r.seen, Panic(v))
                   ELSE [r EXCEPT !.v = SliceVal(Append(v.e, r.v))]
        elem(et, ek) ==
          IF ek = "iface" THEN inferInterfaceValue(InvalidValue, path, val)
          ELSE IF Len(path) = 0 THEN assignLeaf(et, Zero(et), TRUE, val)
          ELSE assign(et, Zero(et), TRUE, path, val)
    IN IF ~seg.Index THEN Fail(v)
       ELSE grow(elem(Elem(n), Kind(Elem(n))))

assignSliceValue(n, v, can, seg, path, val) ==
    LET grow(r) == IF r.st # "ok" THEN [r EXCEPT !.v = v]
                   ELSE IF ~can THEN Saw(r.seen, Panic(v))
                   ELSE [r EXCEPT !.v = SliceVal(Append(v.e, r.v))]
        elem(et, ek) ==
          IF ek = "iface" THEN inferInterfaceValue(InvalidValue, path, val)
          ELSE IF Len(path) = 0 THEN assignLeaf(et, Zero(et), TRUE, val)
          ELSE assign(et, Zero(et), TRUE, path, val)
    IN IF ~seg.Index THEN Fail(v)
       ELSE grow(elem(Elem(n), Kind(Elem(n))))

\* v.Elem() of an interface cannot be set
assignInterfaceValue(n, v, can, path, val) ==
    LET inferred(r) == IF r.st # "ok" THEN [r EXCEPT !.v = v]
                       ELSE IF ~can THEN Saw(r.seen, Panic(v))
                       ELSE r
        held(r) == [r EXCEPT !.v = Iface(v.dt, r.v)]
    IN IF v.nil THEN inferred(inferInterfaceValue(Wrapped(v), path, val))
       ELSE held(assign(v.dt, v.dv, FALSE, path, val))

-----------------------------------------------------------------------------
(* The encode engine.                                                       *)
(*                                                                          *)
(* out is the url.Values being filled, kept as the sequence of added pairs  *)
(* (Encode orders them by key and keeps each key's values in the order they *)
(* were added).  path is the []string of the code: "" is the index marker.  *)
(* rt holds what the build and the runtime decide during one call.  rt.ord  *)
(* is the order of each range over a map: it has the shape of the value, so *)
(* that every map met has a choice of its own (see OrdersOf).  rt.go122 is  *)
(* TRUE when the program is built with Go 1.22 or later, whose              *)
(* reflect.Value.IsZero takes the float -0 for zero, rt.march when its      *)
(* package time counts absolute time from March 1 of year -292277022400     *)
(* and not from the next January 1; the repository names no Go version,    *)
(* and int has 64 bits.  A result is [st, out, seen]: seen holds the struct *)
(* types tags() was called for.                                             *)

RECURSIVE renderRest_NoMarker(_)
\* mutant: an index marker is not rendered
renderRest_NoMarker(ps) ==
    IF ps = <<>> THEN <<>>
    ELSE (IF Head(ps) = <<>> THEN <<>> ELSE <<"[">> \o Head(ps) \o <<"]">>)
         \o renderRest_NoMarker(Tail(ps))

RECURSIVE renderRest(_)
\* the loop of renderPath over path[1:]
renderRest(ps) ==
    IF ps = <<>> THEN <<>>
    ELSE (IF Head(ps) = <<>> THEN <<"[", "]">> ELSE <<"[">> \o Head(ps) \o <<"]">>)
         \o renderRest(Tail(ps))

\* renderPath, for a path that is not empty
renderPath(path) == path[1] \o renderRest(Tail(path))

M(st, o) == [st |-> st, out |-> o, seen |-> {}]

\* url.Values.Add; renderPath indexes path[0] and panics on the empty path
Add(o, path, s) ==
    IF path = <<>> THEN M("panic", o)
    ELSE M("ok", Append(o, [k |-> renderPath(path), v |-> s]))

\* fixtures: func (d MyDate) MarshalForm(), which is
\* time.Time(d).Format("2006.01.02"), and
\* func (a Animal) MarshalForm() (string, error)
MarshalForm(n, v, march) ==
    IF n = "MyDate" THEN Format(v, march)
    ELSE IF v = IntVal(FALSE, <<"1">>) THEN s_gopher
    ELSE IF v = IntVal(FALSE, <<"2">>) THEN s_zebra
    ELSE s_unknown

\* asMarshaler: the hook has a value receiver; an interface value answers
\* for the value it holds
asMarshaler(n, v) ==
    LET of(t) == IF t.k = "iface" THEN ~v.nil /\ TypeOf(v.dt).mm ELSE t.mm
    IN of(TypeOf(n))

marshaler(o, path, n, v, march) ==
    Add(o, path, IF Kind(n) = "iface" THEN MarshalForm(v.dt, v.dv, march)
                 ELSE MarshalForm(n, v, march))

ScalarKinds == {"string", "int", "uint", "float", "bool"}

\* getScalar, for the kinds it does not panic on
getScalar(n, v) ==
    CASE Kind(n) = "string" -> v
      [] Kind(n) \in {"int", "uint"} -> FormatInt(v)
      [] Kind(n) = "float" -> FormatFloat(v, Bits(n))
      [] Kind(n) = "bool" -> FormatBool(v)

marshalScalar(o, path, n, v) ==
    IF Kind(n) \notin ScalarKinds THEN M("panic", o)
    ELSE Add(o, path, getScalar(n, v))

\* mutant: a number is never taken for empty
isEmptyValue_NoNumber(n, v, go122) ==
    LET switch(k) ==
          CASE k = "string" -> Len(v) = 0
            [] k = "slice" -> Len(v.e) = 0
            [] k = "map" -> DOMAIN v.m = {}
            [] k = "bool" -> v = FALSE
            [] k \in {"iface", "ptr"} -> v.nil
            [] OTHER -> FALSE
    IN switch(Kind(n))

\* isEmptyValue; for a number it is reflect.Value.IsZero, which compares a
\* float with 0 from Go 1.22 on (so -0 is zero) and its bits with those of +0
\* before
isEmptyValue(n, v, go122) ==
    LET switch(k) ==
          CASE k = "string" -> Len(v) = 0
            [] k = "slice" -> Len(v.e) = 0
            [] k = "map" -> DOMAIN v.m = {}
            [] k = "bool" -> v = FALSE
            [] k \in {"int", "uint"} -> v = IntZero
            [] k = "float" -> v = FloatZero \/ (go122 /\ v = NegZero)
            [] k \in {"iface", "ptr"} -> v.nil
            [] OTHER -> FALSE
    IN switch(Kind(n))

RECURSIVE KeyOrder(_, _)
\* the order a range over a map with these keys takes when the runtime's
\* choice is ord: any order of the keys is some ord's
KeyOrder(keys, ord) ==
    IF keys = <<>> THEN <<>>
    ELSE LET i == (ord % Len(keys)) + 1
             rest == [j \in 1..(Len(keys) - 1) |-> IF j < i THEN keys[j] ELSE keys[j + 1]]
         IN <<keys[i]>> \o KeyOrder(rest, ord \div Len(keys))

RECURSIVE Factorial(_)
Factorial(k) == IF k <= 1 THEN 1 ELSE k * Factorial(k - 1)

\* the choices the runtime has for the order of a range over a map of k
\* keys: one per order
MapOrders(k) == 0..(Factorial(k) - 1)

RECURSIVE Product(_)
\* the sequences that take their i-th element from the i-th set
Product(sets) ==
    IF sets = <<>> THEN {<<>>}
    ELSE {<<h>> \o t : h \in Head(sets), t \in Product(Tail(sets))}

RECURSIVE OrdersOf(_, _)
\* the choices the runtime has during marshalValue of the value v of type
\* n, one for each range over a map, independent of each other: for a map,
\* here is the choice for its own range and sub holds the choices for its
\* elements, by sorted key; for a struct or a slice, one entry per field or
\* element; 0 where there is no map
OrdersOf(n, v) ==
    LET of(t) ==
          CASE t.k = "ptr" -> IF v.nil THEN {0} ELSE OrdersOf(t.elem, v.p)
            [] t.k = "iface" -> IF v.nil THEN {0} ELSE OrdersOf(v.dt, v.dv)
            [] t.k = "struct" ->
                 Product([i \in 1..Len(t.fields) |-> OrdersOf(t.fields[i].type, v[i])])
            [] t.k = "slice" ->
                 Product([i \in 1..Len(v.e) |-> OrdersOf(t.elem, v.e[i])])
            [] t.k = "map" /\ Kind(t.key) = "string" ->
                 LET each(keys) ==
                       {[here |-> c, sub |-> sub] :
                          c \in MapOrders(Len(keys)),
                          sub \in Product([i \in 1..Len(keys) |->
                                             OrdersOf(t.elem, v.m[keys[i]])])}
                 IN each(SortKeys(DOMAIN v.m))
            [] OTHER -> {0}
    IN IF n = "nil" THEN {0} ELSE of(TypeOf(n))

\* the builds of the program: with a Go release before 1.22, with 1.22 or
\* one after it, and with a release whose package time counts absolute time
\* from March 1
Builds ==
    {[go122 |-> FALSE, march |-> FALSE], [go122 |-> TRUE, march |-> FALSE],
     [go122 |-> TRUE, march |-> TRUE]}

Runtime(b, ord) == [go122 |-> b.go122, march |-> b.march, ord |-> ord]

\* what the build and the runtime can decide during Marshal of the value v
\* of type n
Runtimes(n, v) == {Runtime(b, o) : b \in Builds, o \in OrdersOf(n, v)}

RECURSIVE marshalValue(_, _, _, _, _, _)
RECURSIVE marshalStruct(_, _, _, _, _, _)
RECURSIVE marshalMap(_, _, _, _, _, _)
RECURSIVE marshalSlice(_, _, _, _, _, _)

\* ro: v was obtained from an unexported field, so that v.Interface() (and
\* v.Addr().Interface()) in asMarshaler panics; a nil pointer returns before
\* that, and Elem of a pointer keeps the flag.  The values handed on to
\* marshalStruct, marshalMap and marshalSlice never have the flag
marshalValue(o, path, n0, v0, rt, ro) ==
    LET switch(n, v, k) ==
          IF ro THEN M("panic", o)
          ELSE IF asMarshaler(n, v) THEN marshaler(o, path, n, v, rt.march)
          ELSE CASE k = "struct" -> marshalStruct(o, path, n, v, 1, rt)
                 [] k = "map" ->
                      marshalMap(o, path, n, v,
                                 KeyOrder(SortKeys(DOMAIN v.m), rt.ord.here), rt)
                 [] k = "slice" -> marshalSlice(o, path, n, v, 1, rt)
                 [] k = "iface" ->
                      IF ~v.nil THEN marshalValue(o, path, v.dt, v.dv, rt, FALSE)
                      ELSE M("ok", o)
                 [] OTHER -> marshalScalar(o, path, n, v)
        elem(n, v) == switch(n, v, Kind(n))
        deref(t) == IF t.k = "ptr" /\ v0.nil THEN M("ok", o)
                    ELSE elem(IF t.k = "ptr" THEN t.elem ELSE n0,
                              IF t.k = "ptr" THEN v0.p ELSE v0)
    IN deref(TypeOf(n0))

\* the loop of marshalStruct, at field i; tags() is called for the struct
marshalStruct(o, path, n, v, i, rt) ==
    LET next(r) == IF r.st # "ok" THEN r
                   ELSE Saw(r.seen, marshalStruct(r.out, path, n, v, i + 1, rt))
        field(tag, ft) ==
          IF tag.Ignore \/ (tag.Omit /\ isEmptyValue(ft, v[i], rt.go122)) \/ tag.Name = <<>>
          THEN next(M("ok", o))
          ELSE next(marshalValue(o, Append(path, tag.Name), ft, v[i],
                                 [rt EXCEPT !.ord = @[i]], ~Exported(Fields(n)[i])))
        loop(fs) == IF i > Len(fs) THEN M("ok", o)
                    ELSE field(tags(n)[i], fs[i].type)
    IN Saw({n}, loop(Fields(n)))

\* the loop of marshalMap, with keys the keys still to visit
marshalMap(o, path, n, v, keys, rt) ==
    LET next(r) == IF r.st # "ok" THEN r
                   ELSE Saw(r.seen, marshalMap(r.out, path, n, v, Tail(keys), rt))
        entry(k, mv, et) ==
          IF Kind(et) = "iface" /\ mv.nil THEN next(M("ok", o))
          ELSE next(marshalValue(o, Append(path, k), et, mv,
                                 [rt EXCEPT !.ord = @.sub[PosIn(SortKeys(DOMAIN v.m), k)]],
                                 FALSE))
    IN IF keys = <<>> THEN M("ok", o)
       ELSE entry(Head(keys), v.m[Head(keys)], Elem(n))

\* mutant: the loop over a sequence stops after its first element
marshalSlice_First(o, path, n, v, i, rt) ==
    LET entry(elem, et) ==
          IF Kind(et) = "iface" /\ elem.nil THEN M("ok", o)
          ELSE marshalValue(o, Append(path, <<>>), et, elem, [rt EXCEPT !.ord = @[i]],
                            FALSE)
    IN IF i > Len(v.e) THEN M("ok", o)
       ELSE entry(v.e[i], Elem(n))

\* the loop of marshalSlice, at element i
marshalSlice(o, path, n, v, i, rt) ==
    LET next(r) == IF r.st # "ok" THEN r
                   ELSE Saw(r.seen, marshalSlice(r.out, path, n, v, i + 1, rt))
        entry(elem, et) ==
          IF Kind(et) = "iface" /\ elem.nil THEN next(M("ok", o))
          ELSE next(marshalValue(o, Append(path, <<>>), et, elem,
                                 [rt EXCEPT !.ord = @[i]], FALSE))
    IN IF i > Len(v.e) THEN M("ok", o)
       ELSE entry(v.e[i], Elem(n))

\* mutant: a nil root pointer is dereferenced like any other, and the
\* invalid Value it yields fails the check of the root kind
Marshal_NoNilCheck(n0, v0, rt) ==
    LET encoded(r) ==
          IF r.st = "ok" THEN [st |-> "nil", bytes |-> Encode(r.out), seen |-> r.seen]
          ELSE [st |-> r.st, bytes |-> <<>>, seen |-> r.seen]
        root(n, v, t) ==
          IF t.k \notin {"struct", "map"} THEN [st |-> "error", bytes |-> <<>>, seen |-> {}]
          ELSE IF t.k = "map" /\ Kind(t.key) # "string"
               THEN [st |-> "error", bytes |-> <<>>, seen |-> {}]
          ELSE encoded(marshalValue(<<>>, <<>>, n, v, rt, FALSE))
        elem(n, v) == root(n, v, TypeOf(n))
        deref(t) == IF t.k = "ptr" /\ v0.nil THEN [st |-> "error", bytes |-> <<>>, seen |-> {}]
                    ELSE elem(IF t.k = "ptr" THEN t.elem ELSE n0,
                              IF t.k = "ptr" THEN v0.p ELSE v0)
    IN IF n0 = "nil" THEN [st |-> "nil", bytes |-> <<>>, seen |-> {}]
       ELSE deref(TypeOf(n0))

\* mutant: the key type of a root map is not looked at
Marshal_AnyKey(n0, v0, rt) ==
    LET encoded(r) ==
          IF r.st = "ok" THEN [st |-> "nil", bytes |-> Encode(r.out), seen |-> r.seen]
          ELSE [st |-> r.st, bytes |-> <<>>, seen |-> r.seen]
        root(n, v, t) ==
          IF t.k \notin {"struct", "map"} THEN [st |-> "error", bytes |-> <<>>, seen |-> {}]
          ELSE encoded(marshalValue(<<>>, <<>>, n, v, rt, FALSE))
        elem(n, v) == root(n, v, TypeOf(n))
        deref(t) == IF t.k = "ptr" /\ v0.nil THEN [st |-> "nil", bytes |-> <<>>, seen |-> {}]
                    ELSE elem(IF t.k = "ptr" THEN t.elem ELSE n0,
                              IF t.k = "ptr" THEN v0.p ELSE v0)
    IN IF n0 = "nil" THEN [st |-> "nil", bytes |-> <<>>, seen |-> {}]
       ELSE deref(TypeOf(n0))

\* Marshal(v) for v of type n ("nil" is the nil interface): the status and
\* the bytes returned
Marshal(n0, v0, rt) ==
    LET encoded(r) ==
          IF r.st = "ok" THEN [st |-> "nil", bytes |-> Encode(r.out), seen |-> r.seen]
          ELSE [st |-> r.st, bytes |-> <<>>, seen |-> r.seen]
        root(n, v, t) ==
          IF t.k \notin {"struct", "map"} THEN [st |-> "error", bytes |-> <<>>, seen |-> {}]
          ELSE IF t.k = "map" /\ Kind(t.key) # "string"
               THEN [st |-> "error", bytes |-> <<>>, seen |-> {}]
          ELSE encoded(marshalValue(<<>>, <<>>, n, v, rt, FALSE))
        elem(n, v) == root(n, v, TypeOf(n))
        deref(t) == IF t.k = "ptr" /\ v0.nil THEN [st |-> "nil", bytes |-> <<>>, seen |-> {}]
                    ELSE elem(IF t.k = "ptr" THEN t.elem ELSE n0,
                              IF t.k = "ptr" THEN v0.p ELSE v0)
    IN IF n0 = "nil" THEN [st |-> "nil", bytes |-> <<>>, seen |-> {}]
       ELSE deref(TypeOf(n0))

-----------------------------------------------------------------------------
(* Unmarshal and Marshal as steps of a call *)

NoTags == <<>>

\* the variables of the struct tag cache, untouched by a step that does not
\* call tags()
CacheIdle == UNCHANGED <<cache, gpc, gtype, gtags, derived>>

\* tags() has been called, by the one call that is running, for the struct
\* types in seen: a type that is not in structTagCache has its tags derived
\* and stored, a type that is in it is loaded
TagsCalled(seen) ==
    /\ cache' = [t \in DOMAIN cache \cup seen |->
                    IF t \in DOMAIN cache THEN cache[t] ELSE deriveTags(t)]
    /\ derived' = [t \in DOMAIN derived \cup (seen \ DOMAIN cache) |->
                      IF t \in seen \ DOMAIN cache
                      THEN (IF t \in DOMAIN derived THEN derived[t] ELSE 0) + 1
                      ELSE derived[t]]
    /\ UNCHANGED <<gpc, gtype, gtags>>

\* reflect.TypeOf(v) for the v handed to Unmarshal: nil for a nil v, else
\* the type n or the pointer type *n
ArgType(a, n) ==
    IF a = "nil" THEN [nil |-> TRUE, ptr |-> FALSE, name |-> ""]
    ELSE [nil |-> FALSE, ptr |-> a # "value", name |-> n]

\* (*InvalidUnmarshalError).Error() for an error whose Type is t, as the
\* strings it concatenates
Error(t) ==
    IF t.nil THEN <<"form: Unmarshal(nil)">>
    ELSE IF ~t.ptr /\ Kind(t.name) # "ptr"
         THEN <<"form: Unmarshal(non-pointer ", t.name, ")">>
    ELSE IF t.ptr THEN <<"form: Unmarshal(nil ", "*", t.name, ")">>
    ELSE <<"form: Unmarshal(nil ", t.name, ")">>

\* Unmarshal up to the call of unmarshalForm: the checks on the input and
\* on the target, and url.ParseQuery
UnmarshalCall ==
    /\ pc = "unmarshal"
    /\ LET fail(e) == /\ pc' = "returned"
                      /\ err' = e
                      /\ UNCHANGED <<values, todo>>
           call(t, q) ==
             IF \/ t.k \notin {"struct", "map"}
                \/ (t.k = "map" /\ Kind(t.key) # "string")
                \/ q.err
             THEN fail("error")
             ELSE /\ pc' = "range"
                  /\ values' = q.pairs
                  /\ todo' = KeysOf(q.pairs)
                  /\ UNCHANGED err
       IN IF Len(data) = 0 THEN fail("error")
          ELSE IF arg # "ptr" THEN fail("InvalidUnmarshalError")
          ELSE call(TypeOf(argT), ParseQuery(TrimSpace(data)))
    /\ UNCHANGED <<arg, argT, data, curPath, curVals, target, applied, srcT, src, out, merr>>
    /\ CacheIdle

\* unmarshalForm: the range over url.Values reaches its next key, in the
\* order Go's map iteration happens to take, and parses it
RangeNext ==
    /\ pc = "range"
    /\ todo # {}
    /\ \E rawKey \in todo :
          LET parsed(p) ==
                /\ todo' = todo \ {rawKey}
                /\ IF p.err
                   THEN /\ pc' = "returned"
                        /\ err' = "error"
                        /\ UNCHANGED <<curPath, curVals>>
                   ELSE /\ pc' = "assign"
                        /\ curPath' = p.path
                        /\ curVals' = ValuesOf(values, rawKey)
                        /\ UNCHANGED err
          IN parsed(parseKey(rawKey))
    /\ UNCHANGED <<arg, argT, data, values, target, applied, srcT, src, out, merr>>
    /\ CacheIdle

\* mutant: the error of a failed assign is kept and the loop goes on
AssignStep_Continue ==
    /\ pc = "assign"
    /\ LET assigned(val, r) ==
             /\ target' = r.v
             /\ TagsCalled(r.seen)
             /\ applied' = Append(applied, [path |-> curPath, val |-> val])
             /\ pc' = IF Tail(curVals) = <<>> THEN "range" ELSE "assign"
             /\ curVals' = Tail(curVals)
             /\ err' = IF r.st # "ok" THEN r.st ELSE err
       IN assigned(Head(curVals), assign(argT, target, TRUE, curPath, Head(curVals)))
    /\ UNCHANGED <<arg, argT, data, values, todo, curPath, srcT, src, out, merr>>

\* unmarshalForm: one assign call of the inner loop
AssignStep ==
    /\ pc = "assign"
    /\ LET assigned(val, r) ==
             /\ target' = r.v
             /\ TagsCalled(r.seen)
             /\ applied' = Append(applied, [path |-> curPath, val |-> val])
             /\ IF r.st # "ok"
                THEN /\ pc' = "returned"
                     /\ err' = r.st
                     /\ UNCHANGED curVals
                ELSE /\ pc' = IF Tail(curVals) = <<>> THEN "range" ELSE "assign"
                     /\ curVals' = Tail(curVals)
                     /\ UNCHANGED err
       IN assigned(Head(curVals), assign(argT, target, TRUE, curPath, Head(curVals)))
    /\ UNCHANGED <<arg, argT, data, values, todo, curPath, srcT, src, out, merr>>

\* unmarshalForm: the range is over
RangeEnd ==
    /\ pc = "range"
    /\ todo = {}
    /\ pc' = "returned"
    /\ err' = "nil"
    /\ UNCHANGED <<arg, argT, data, values, todo, curPath, curVals, target, applied,
                   srcT, src, out, merr>>
    /\ CacheIdle

\* Marshal called on the value a successful Unmarshal left in its target
MarshalTarget ==
    /\ pc = "returned"
    /\ err = "nil"
    /\ \E rt \in Runtimes(argT, target) :
          LET marshalled(r) == /\ out' = r.bytes
                               /\ merr' = r.st
                               /\ TagsCalled(r.seen)
          IN marshalled(Marshal(argT, target, rt))
    /\ srcT' = argT
    /\ src' = target
    /\ pc' = "done"
    /\ UNCHANGED <<arg, argT, data, values, todo, curPath, curVals, target, err, applied>>

\* the state in which Unmarshal(d, v) is called with v of type n (a value,
\* or a pointer when a is "ptr"), holding or pointing to t
CallInitTo(a, n, d, t) ==
    /\ pc = "unmarshal"
    /\ arg = a
    /\ argT = n
    /\ data = d
    /\ values = <<>>
    /\ todo = {}
    /\ curPath = <<>>
    /\ curVals = <<>>
    /\ target = t
    /\ err = "none"
    /\ applied = <<>>
    /\ srcT = "nil"
    /\ src = NilIface
    /\ out = <<>>
    /\ merr = "none"
    /\ cache = <<>>
    /\ gpc = <<>>
    /\ gtype = <<>>
    /\ gtags = <<>>
    /\ derived = <<>>

\* the state in which Unmarshal(d, v) is called: v is nil (n is "nil"), a
\* value of type n, a nil *n, or a pointer to the zero value of n
CallInit(a, n, d) ==
    CallInitTo(a, n, d,
               IF a = "nil" THEN NilIface ELSE IF a = "nilptr" THEN NilPtr ELSE Zero(n))

\* the state in which Unmarshal(d, &v) is called with v the zero value of n
DecodeInit(n, d) == CallInit("ptr", n, d)

\* a query holding the given pairs in order
Query(pairs) ==
    JoinAmp([i \in 1..Len(pairs) |->
                QueryEscape(pairs[i].k) \o <<"=">> \o QueryEscape(pairs[i].v)])

-----------------------------------------------------------------------------
(* Spec: Unmarshal of form data into a zero target, then Marshal of the   *)
(* target it filled.  The target is a map[string]interface{}, a Person, a  *)
(* Holder or a Scalars; the input has up to MaxPairs pairs.                 *)

MaxPairs == 3

DynT == "map[string]interface{}"

\* keys: a, b, a[b], a[], a[b][], a[][b], [a], [a][] and a[ (unterminated)
DynKeys ==
    {<<"a">>, <<"b">>, <<"a", "[", "b", "]">>, <<"a", "[", "]">>,
     <<"a", "[", "b", "]", "[", "]">>, <<"a", "[", "]", "[", "b", "]">>,
     <<"[", "a", "]">>, <<"[", "a", "]", "[", "]">>, <<"a", "[">>}

PersonKeys == {s_name, s_age, s_pronouns \o <<"[", "]">>, s_bogus}

HolderKeys == {s_data, s_data \o <<"[", "]">>, s_data \o <<"[", "a", "]">>}

ScalarsKeys == {<<"i">>, <<"u">>, <<"f">>, <<"b">>}

Targets == {DynT, "Person", "Holder", "Scalars"}

KeysFor(n) ==
    CASE n = DynT -> DynKeys
      [] n = "Person" -> PersonKeys
      [] n = "Holder" -> HolderKeys
      [] n = "Scalars" -> ScalarsKeys

Leaves == << <<"0", "0", "7">>, s_true, <<"4", "2">>, <<"x">> >>

ScalarLeaves == << <<"1">>, <<>>, <<"3", "0", "0">>, <<>> >>

\* the value of the i-th pair of an input for a target of type n
LeafAt(n, i) ==
    IF n = "Scalars" THEN ScalarLeaves[((i - 1) % Len(ScalarLeaves)) + 1]
    ELSE Leaves[((i - 1) % Len(Leaves)) + 1]

Init ==
    \E n \in Targets :
       \E len \in 0..MaxPairs :
          \E ks \in [1..len -> KeysFor(n)] :
             DecodeInit(n, Query([i \in 1..len |-> [k |-> ks[i], v |-> LeafAt(n, i)]]))

Next == UnmarshalCall \/ RangeNext \/ AssignStep \/ RangeEnd \/ MarshalTarget

Spec == Init /\ [][Next]_vars

-----------------------------------------------------------------------------
(* RoundTripSpec: Marshal of a source value, then Unmarshal of the bytes    *)
(* into a zero target of the same type, as TestMarshal_RoundTrip does.      *)

\* encoded, err := Marshal(input); Unmarshal(encoded, target) follows when
\* Marshal returned no error
MarshalSource ==
    /\ pc = "marshal"
    /\ \E rt \in Runtimes(srcT, src) :
          LET marshalled(r) == /\ out' = r.bytes
                               /\ merr' = r.st
                               /\ data' = r.bytes
                               /\ pc' = IF r.st = "nil" THEN "unmarshal" ELSE "done"
                               /\ TagsCalled(r.seen)
          IN marshalled(Marshal(srcT, src, rt))
    /\ UNCHANGED <<arg, argT, values, todo, curPath, curVals, target, err, applied, srcT, src>>

\* the state in which Marshal(v) is called with v of type n, a zero value of
\* type n standing by as the target
EncodeInit(n, v) ==
    /\ pc = "marshal"
    /\ arg = "ptr"
    /\ argT = n
    /\ data = <<>>
    /\ values = <<>>
    /\ todo = {}
    /\ curPath = <<>>
    /\ curVals = <<>>
    /\ target = Zero(n)
    /\ err = "none"
    /\ applied = <<>>
    /\ srcT = n
    /\ src = v
    /\ out = <<>>
    /\ merr = "none"
    /\ cache = <<>>
    /\ gpc = <<>>
    /\ gtype = <<>>
    /\ gtags = <<>>
    /\ derived = <<>>

\* the longest sequence in a source value
MaxElems == 2

s_al == <<"a", "l">>
s_he == <<"h", "e">>

Names == {<<>>, s_al}

Ints == {IntZero, IntVal(FALSE, <<"7">>)}

\* the sequences of at most MaxElems of the words "he" and ""
WordSeqs == UNION {[1..len -> {s_he, <<>>}] : len \in 0..MaxElems}

PersonSources ==
    {<<nm, ag, pr>> : nm \in Names, ag \in Ints,
                      pr \in {NilSlice} \cup {SliceVal(ws) : ws \in WordSeqs}}

CounterSources == {<<n>> : n \in Ints}

\* User values: no age and the zero Address, or an age and an Address with
\* an empty city
UserSources ==
    {<<s_al, IntZero, Zero("Address")>>,
     <<s_al, IntVal(FALSE, <<"7">>), <<s_al, <<>>, <<"N", "Y">>, <<"1", "2">> >> >>}

\* Animal values: 0, Gopher, Zebra and one the codec has no name for
Animals == {IntZero, IntVal(FALSE, <<"1">>), IntVal(FALSE, <<"2">>), IntVal(FALSE, <<"3">>)}

ProfileSources ==
    {<<o, a, as>> : o \in {NilPtr} \cup {PtrVal(nm) : nm \in Names}, a \in Animals,
                    as \in {NilSlice, SliceVal(<< <<s_al, s_he, <<>>, <<"1", "2">> >> >>)}}

StringMapSources ==
    {NilMap, MapVal(<<>>),
     MapVal(<<"a">> :> <<"x">>),
     MapVal(<<>> :> <<"x">>),
     MapVal((<<"a">> :> <<"x">>) @@ (<<"b">> :> <<>>)),
     MapVal(<<"a", "]">> :> <<"x">>),
     MapVal(<<"a", "[", "b", "]">> :> <<"x">>)}

\* two positions of the second value render to the key a[b]
DynSources ==
    {MapVal((<<"a">> :> Iface("string", <<"x">>))
            @@ (<<"b">> :> Iface("[]interface{}",
                                 SliceVal(<<Iface("string", <<"y">>)>>)))),
     MapVal((<<"a", "[", "b", "]">> :> Iface("string", <<"1">>))
            @@ (<<"a">> :> Iface(DynT, MapVal(<<"b">> :> Iface("string", <<"2">>)))))}

\* the float64 nearest to 0.1
Tenth ==
    FloatVal(FALSE, <<"0">>,
             <<"1", "0", "0", "0", "0", "0", "0", "0", "0", "0", "0", "0", "0", "0",
               "0", "0", "0", "5", "5", "5", "1", "1", "1", "5", "1", "2", "3", "1",
               "2", "5", "7", "8", "2", "7", "0", "2", "1", "1", "8", "1", "5", "8",
               "3", "4", "0", "4", "5", "4", "1", "0", "1", "5", "6", "2", "5">>)

\* Scalars values: a float with a short decimal, one without, a whole one
\* FormatFloat writes without an exponent, a negative zero, an infinity and
\* a NaN
ScalarsSources ==
    {<<IntVal(TRUE, <<"7">>), IntZero, f, TRUE>> :
        f \in {FloatVal(FALSE, <<"1">>, <<"5">>), Tenth, NegZero, Inf(TRUE), NaN,
               FloatVal(FALSE, <<"1", "2", "3", "0", "0", "0", "0", "0", "0", "0", "0">>,
                        <<>>)}}

\* time.FixedZone("", 3600): one zone, in force at all times
FixedZone ==
    PtrVal(<< <<>>, SliceVal(<< <<<<>>, BigOf(3600), FALSE>> >>),
              SliceVal(<< <<IntVal(TRUE, Pow2(63)), IntZero, FALSE, FALSE>> >>), <<>>,
              IntVal(TRUE, Pow2(63)), IntVal(FALSE, NatSub(Pow2(63), <<"1">>)),
              PtrVal(<<<<>>, BigOf(3600), FALSE>>) >>)

\* time.Local where the zone is five hours west of Greenwich, four in
\* summer: the zones and two transitions of the zone file, and its rule for
\* the years after them; its cache holds the zone in force from November 3
\* of 2024 to March 9 of 2025
s_rule ==
    <<"E", "S", "T", "5", "E", "D", "T", ",", "M", "3", ".", "2", ".", "0", ",",
      "M", "1", "1", ".", "1", ".", "0">>

LocalZone ==
    PtrVal(<< <<"L", "o", "c", "a", "l">>,
              SliceVal(<< <<<<"E", "D", "T">>, BigOf(0 - 14400), TRUE>>,
                          <<<<"E", "S", "T">>, BigOf(0 - 18000), FALSE>> >>),
              SliceVal(<< <<BigOf(1173596400), IntVal(FALSE, <<"0">>), FALSE, FALSE>>,
                          <<BigOf(1194156000), IntVal(FALSE, <<"1">>), FALSE, FALSE>> >>),
              s_rule, BigOf(1730613600), BigOf(1741503600),
              PtrVal(<<<<"E", "S", "T">>, BigOf(0 - 18000), FALSE>>) >>)

\* MyDate values: the test's date and the zero Time, as time.Parse returns
\* them; 23:30 of the test's date in a zone an hour ahead, which is the next
\* day there; time.Now() at 03:00:00 UTC of 2025.03.09 (Unix 1741489200) and
\* of 2025.07.01 (Unix 1751338800) with its monotonic clock reading, where
\* the day has not begun yet in the local zone; January 1 of the year 12345
\* and of the year -1; and time.Unix(-9223372028715321700, 0).UTC(), 100
\* seconds before absolute time starts in the builds that count from
\* January 1
DateSources ==
    {MyDateOf(s_date), MyDateOf(ZeroDate),
     <<IntZero, IntVal(FALSE, <<"6", "3", "8", "7", "4", "6", "5", "4", "2", "0", "0">>), FixedZone>>,
     <<IntVal(FALSE, <<"1", "3", "9", "7", "3", "3", "6", "6", "6", "3", "6", "5", "5", "2", "3", "8", "8", "6", "0", "8">>),
       BigOf(5), LocalZone>>,
     <<IntVal(FALSE, <<"1", "3", "9", "8", "3", "9", "4", "2", "5", "6", "4", "0", "2", "2", "0", "5", "9", "0", "0", "8">>),
       BigOf(5), LocalZone>>,
     <<IntZero, IntVal(FALSE, <<"3", "8", "9", "5", "3", "8", "9", "7", "9", "2", "0", "0">>), NilPtr>>,
     <<IntZero, IntVal(TRUE, <<"6", "3", "1", "5", "8", "4", "0", "0">>), NilPtr>>,
     <<IntZero, IntVal(TRUE, <<"9", "2", "2", "3", "3", "7", "1", "9", "6", "6",
                               "5", "7", "9", "7", "2", "4", "9", "0", "0">>), NilPtr>>}

ComplexPersonSources ==
    {<<IntVal(FALSE, <<"7">>), s_al, ag, pr, d, pv, op>> :
        ag \in Ints, pr \in {NilSlice, SliceVal(<<s_he>>)},
        d \in {MyDateOf(s_date),
               <<IntZero, IntVal(FALSE, <<"6", "3", "8", "7", "4", "6", "5", "4", "2", "0", "0">>), FixedZone>>,
               <<IntZero, IntVal(FALSE, <<"3", "8", "9", "5", "3", "8", "9", "7", "9", "2", "0", "0">>), NilPtr>>},
        pv \in {<<>>, <<"x">>}, op \in {NilPtr, PtrVal(s_al)}}

TwinsSources == {<<n, m>> : n \in Ints, m \in {<<>>, <<"7">>, <<"x">>}}

BracketSources == {<<n, b>> : n \in Ints, b \in {<<>>, <<"x">>}}

SealedSources == {<<n, nm, x>> : n \in Ints, nm \in Names, x \in {<<>>, <<"v">>}}

OuterSources == {<<n, <<x, y>> >> : n \in Ints, x \in {<<>>, <<"v">>}, y \in {<<>>, <<"w">>}}

OptSources ==
    {<<c, nm>> : c \in {NilPtr} \cup {PtrVal(v) : v \in CounterSources}, nm \in Names}

SourcesOf(n) ==
    CASE n = "Person" -> PersonSources
      [] n = "ComplexPerson" -> ComplexPersonSources
      [] n = "MyDate" -> DateSources
      [] n = "Twins" -> TwinsSources
      [] n = "Bracket" -> BracketSources
      [] n = "Sealed" -> SealedSources
      [] n = "Outer" -> OuterSources
      [] n = "Opt" -> OptSources
      [] n = "Scalars" -> ScalarsSources
      [] n = "Counter" -> CounterSources
      [] n = "User" -> UserSources
      [] n = "Profile" -> ProfileSources
      [] n = "map[string]string" -> StringMapSources
      [] n = DynT -> DynSources

SourceTypes ==
    {"Person", "Counter", "User", "Profile", "Scalars", "map[string]string", DynT,
     "ComplexPerson", "MyDate", "Twins", "Bracket", "Sealed", "Outer", "Opt"}

RoundTripInit == \E n \in SourceTypes : \E v \in SourcesOf(n) : EncodeInit(n, v)

RoundTripNext == MarshalSource \/ UnmarshalCall \/ RangeNext \/ AssignStep \/ RangeEnd

RoundTripSpec == RoundTripInit /\ [][RoundTripNext]_vars

-----------------------------------------------------------------------------
(* CacheSpec: goroutines calling tags() on values of record types.  Load    *)
(* and Store of the sync.Map are atomic; the loop that derives the tags     *)
(* runs between them without a lock.                                        *)

NumGoroutines == 2

Goroutines == 1..NumGoroutines

RecordTypes == {"Person", "Address"}

\* the variables of a single Unmarshal or Marshal call, untouched by tags()
CallIdle ==
    UNCHANGED <<pc, arg, argT, data, values, todo, curPath, curVals, target, err,
                applied, srcT, src, out, merr>>

\* a decode or encode operation calls tags() with a value of type t
TagsCall(g) ==
    /\ gpc[g] = "idle"
    /\ \E t \in RecordTypes : gtype' = [gtype EXCEPT ![g] = t]
    /\ gpc' = [gpc EXCEPT ![g] = "load"]
    /\ UNCHANGED <<cache, gtags, derived>>
    /\ CallIdle

\* structTagCache.Load(tt): a hit returns the stored tags
TagsLoad(g) ==
    /\ gpc[g] = "load"
    /\ IF gtype[g] \in DOMAIN cache
       THEN /\ gtags' = [gtags EXCEPT ![g] = cache[gtype[g]]]
            /\ gpc' = [gpc EXCEPT ![g] = "idle"]
       ELSE /\ gpc' = [gpc EXCEPT ![g] = "derive"]
            /\ UNCHANGED gtags
    /\ UNCHANGED <<cache, gtype, derived>>
    /\ CallIdle

\* the loop over the fields: the tags are derived
TagsDerive(g) ==
    /\ gpc[g] = "derive"
    /\ gtags' = [gtags EXCEPT ![g] = deriveTags(gtype[g])]
    /\ derived' = [derived EXCEPT ![gtype[g]] = @ + 1]
    /\ gpc' = [gpc EXCEPT ![g] = "store"]
    /\ UNCHANGED <<cache, gtype>>
    /\ CallIdle

\* structTagCache.Store(tt, tags) and the return
TagsStore(g) ==
    /\ gpc[g] = "store"
    /\ cache' = MapPut(cache, gtype[g], gtags[g])
    /\ gpc' = [gpc EXCEPT ![g] = "idle"]
    /\ UNCHANGED <<gtype, gtags, derived>>
    /\ CallIdle

CacheInit ==
    /\ pc = "tags"
    /\ arg = "nil"
    /\ argT = "nil"
    /\ data = <<>>
    /\ values = <<>>
    /\ todo = {}
    /\ curPath = <<>>
    /\ curVals = <<>>
    /\ target = NilIface
    /\ err = "none"
    /\ applied = <<>>
    /\ srcT = "nil"
    /\ src = NilIface
    /\ out = <<>>
    /\ merr = "none"
    /\ cache = <<>>
    /\ gpc = [g \in Goroutines |-> "idle"]
    /\ gtype = [g \in Goroutines |-> "nil"]
    /\ gtags = [g \in Goroutines |-> NoTags]
    /\ derived = [t \in RecordTypes |-> 0]

CacheNext ==
    \E g \in Goroutines : TagsCall(g) \/ TagsLoad(g) \/ TagsDerive(g) \/ TagsStore(g)

CacheSpec == CacheInit /\ [][CacheNext]_vars

-----------------------------------------------------------------------------
(* Properties of Spec *)

Last(q) == q[Len(q)]

\* the []string a path renders from: an index marker is the empty string
PathStrings(p) == [i \in 1..Len(p) |-> IF p[i].Index THEN <<>> ELSE p[i].Key]

\* a raw key re-rendered from its parsed path
Rendered(k) == renderPath(PathStrings(parseKey(k).path))

\* canonicalize: the pairs of the input with each key re-rendered, sorted by
\* key, the values of one key in input order
Canonicalize(d) ==
    LET render(pairs) ==
          [i \in 1..Len(pairs) |-> [k |-> Rendered(pairs[i].k), v |-> pairs[i].v]]
    IN Encode(render(ParseQuery(TrimSpace(d)).pairs))

\* the slots a path names in a mapping target: its first segment is used
\* as a name
Slots(p) == [i \in 1..Len(p) |-> IF i = 1 THEN NamedSeg(p[1].Key) ELSE p[i]]

IndexFree(p) == \A i \in 1..Len(p) : ~p[i].Index

IsPrefix(p, q) == Len(p) <= Len(q) /\ SubSeq(q, 1, Len(p)) = p

\* no pair overwrites what another pair stored, and pairs of different keys
\* do not meet in one rendered key: no path without index markers is another
\* pair's path or a prefix of it, and different raw keys render differently
NoClash(pairs) ==
    \A i, j \in 1..Len(pairs) :
       i # j =>
         LET clash(p, q) ==
               \/ (IndexFree(p) /\ IsPrefix(p, q))
               \/ (pairs[i].k # pairs[j].k
                   /\ renderPath(PathStrings(p)) = renderPath(PathStrings(q)))
         IN ~clash(Slots(parseKey(pairs[i].k).path), Slots(parseKey(pairs[j].k).path))

\* C1 as stated: for every input Unmarshal accepts into a
\* map[string]interface{}, Marshal of the result succeeds and returns
\* canonicalize(input)
C1_RoundTripAllInputs ==
    (pc = "done" /\ argT = DynT) => (merr = "nil" /\ out = Canonicalize(data))

\* C1, amended: for every accepted input in which no pair overwrites what
\* another stored (NoClash), Marshal(Unmarshal(x)) = canonicalize(x); a
\* repeated key with an index marker and mixed named and index segments are
\* among these inputs
C1_RoundTrip ==
    (pc = "done" /\ argT = DynT /\ NoClash(values))
        => (merr = "nil" /\ out = Canonicalize(data))

\* three pairs, a key with an index marker repeated beside a named key
C1_Witness ==
    /\ pc = "done"
    /\ argT = DynT
    /\ NoClash(values)
    /\ Len(values) = 3
    /\ \E i, j \in 1..3 : i < j /\ values[i].k = values[j].k
    /\ \E i \in 1..3 : IndexFree(parseKey(values[i].k).path)

\* the value stored where a pair's path ends, below the interface value i:
\* a named segment reads the mapping, an index marker the last element
RECURSIVE StoredBelow(_, _)
StoredBelow(i, path) ==
    IF path = <<>> THEN i
    ELSE IF Head(path).Index THEN StoredBelow(Last(i.dv.e), Tail(path))
    ELSE StoredBelow(i.dv.m[Head(path).Key], Tail(path))

\* C2: a pair decoded into a map[string]interface{} leaves, where its path
\* ends, exactly its input string as a string, at any depth and inside
\* inferred sequences
C2_LeafIsString ==
    (argT = DynT /\ applied # <<>> /\ err \in {"none", "nil"})
        => StoredBelow(target.m[Last(applied).path[1].Key], Tail(Last(applied).path))
             = Iface("string", Last(applied).val)

\* the numeral 007 stored two levels down, inside an inferred sequence
C2_Witness ==
    /\ argT = DynT
    /\ err = "none"
    /\ applied # <<>>
    /\ Last(applied).val = <<"0", "0", "7">>
    /\ Len(Last(applied).path) = 3
    /\ Last(applied).path[2].Index

\* the positions of the pairs of key k in the input
PairsOf(k) == {i \in 1..Len(values) : values[i].k = k}

Max(S) == CHOOSE i \in S : \A j \in S : j <= i

\* C3: when the key of a scalar field of a record occurs several times,
\* Unmarshal succeeds and the field holds the value of the last occurrence
\* in input order (Person: the string field name, the integer field age)
C3_LastWriteWins ==
    (pc = "returned" /\ argT = "Person") =>
       /\ (Len(values) >= 2 /\ PairsOf(s_name) = 1..Len(values)) => err = "nil"
       /\ (err = "nil" /\ PairsOf(s_name) # {})
             => target[1] = values[Max(PairsOf(s_name))].v
       /\ (err = "nil" /\ PairsOf(s_age) # {})
             => target[2] = IntVal(FALSE, StripZeros(values[Max(PairsOf(s_age))].v))

\* name given three times: the third value is the one kept
C3_Witness ==
    /\ pc = "returned"
    /\ argT = "Person"
    /\ err = "nil"
    /\ Len(values) = 3
    /\ PairsOf(s_name) = {1, 2, 3}
    /\ target[1] = <<"4", "2">>

\* the key that reaches a sequence of the target through one index marker
IndexKeyOf(n) ==
    CASE n = DynT -> <<"a", "[", "]">>
      [] n = "Person" -> s_pronouns \o <<"[", "]">>
      [] n = "Holder" -> s_data \o <<"[", "]">>

\* the strings of the sequence that key reaches
SeqAt(n, t) ==
    CASE n = DynT -> [i \in 1..Len(t.m[<<"a">>].dv.e) |-> t.m[<<"a">>].dv.e[i].dv]
      [] n = "Person" -> t[3].e
      [] n = "Holder" -> [i \in 1..Len(t[1].dv.e) |-> t[1].dv.e[i].dv]

\* C4 as stated: after n pairs of one key that reaches a sequence through
\* an index marker, Unmarshal has succeeded and the sequence holds the n
\* values in input order; for a sequence inferred in a map[string]interface{},
\* a typed sequence field, and a dynamically typed field of a record
C4_IndexMarkersAppend ==
    (/\ pc = "returned"
     /\ argT \in {DynT, "Person", "Holder"}
     /\ Len(values) >= 1
     /\ PairsOf(IndexKeyOf(argT)) = 1..Len(values))
        => /\ err = "nil"
           /\ SeqAt(argT, target) = [i \in 1..Len(values) |-> values[i].v]

\* the dynamically typed field holds a sequence of one element and the
\* second pair of the key did not append to it
C4_Witness ==
    /\ pc = "returned"
    /\ argT = "Holder"
    /\ PairsOf(IndexKeyOf("Holder")) = {1, 2}
    /\ Len(applied) = 2
    /\ err = "panic"
    /\ Len(target[1].dv.e) = 1

\* the outcome of assigning the first i pairs of the history to a zero target
RECURSIVE Replay(_)
Replay(i) ==
    IF i = 0 THEN Ok(Zero(argT))
    ELSE assign(argT, Replay(i - 1).v, TRUE, applied[i].path, applied[i].val)

\* C6: a pair whose assignment fails is the last pair handed to assign, and
\* Unmarshal returns its error: no later pair is applied to the target
C6_FirstErrorAborts ==
    /\ \A i \in 1..(Len(applied) - 1) : Replay(i).st = "ok"
    /\ (applied # <<>> /\ Replay(Len(applied)).st # "ok")
          => (pc = "returned" /\ err = Replay(Len(applied)).st)
    /\ target = Replay(Len(applied)).v

\* name was applied, then the unknown field bogus failed, and the third
\* pair of the input was never applied
C6_Witness ==
    /\ pc = "returned"
    /\ err = "error"
    /\ argT = "Person"
    /\ Len(values) = 3
    /\ Len(applied) = 2
    /\ applied[1].path = <<NamedSeg(s_name)>>
    /\ applied[2].path = <<NamedSeg(s_bogus)>>
    /\ todo # {}

\* C7: the empty string assigned to an integer, unsigned, float or boolean
\* slot does not fail and leaves the slot at the zero value of its kind
C7_EmptyStringIsZero ==
    (argT = "Scalars" /\ applied # <<>> /\ Last(applied).val = <<>>) =>
       LET slot(i) == /\ err \in {"none", "nil"}
                      /\ target[i] = Zero(Fields("Scalars")[i].type)
       IN slot(findStructField("Scalars", Last(applied).path[1].Key))

\* a slot that held 1 from the pair before is back at zero
C7_Witness ==
    /\ argT = "Scalars"
    /\ Len(applied) = 2
    /\ applied[1].path = applied[2].path
    /\ applied[1].val = <<"1">>
    /\ applied[2].val = <<>>
    /\ err = "none"
    /\ target = Zero("Scalars")

-----------------------------------------------------------------------------
(* Properties of RoundTripSpec *)

\* the omitempty integer fields of the record type n
OmitFields(n) ==
    {i \in 1..Len(Fields(n)) :
        /\ tags(n)[i].Omit
        /\ ~tags(n)[i].Ignore
        /\ Kind(Fields(n)[i].type) \in {"int", "uint"}
        /\ ~TypeOf(Fields(n)[i].type).mm}

\* the record types with an omitempty integer field
OmitTypes == {n \in SourceTypes : Kind(n) = "struct" /\ OmitFields(n) # {}}

\* marshalStruct passes over field i of the record v of type n, in build b
Skipped(n, v, i, b) ==
    tags(n)[i].Ignore \/ (tags(n)[i].Omit /\ isEmptyValue(Fields(n)[i].type, v[i], b.go122))

RECURSIVE PairsOfOthers(_, _, _, _, _)
\* the pairs marshalStruct adds for the fields of the record v of type n
\* from field i on, field f left out
PairsOfOthers(n, v, f, i, rt) ==
    IF i > Len(Fields(n)) THEN <<>>
    ELSE (IF i = f \/ Skipped(n, v, i, rt) THEN <<>>
          ELSE marshalValue(<<>>, <<tags(n)[i].Name>>, Fields(n)[i].type, v[i],
                            [rt EXCEPT !.ord = @[i]], ~Exported(Fields(n)[i])).out)
         \o PairsOfOthers(n, v, f, i + 1, rt)

\* Marshal's output holds a pair whose key addresses field f of the source's
\* type: the first segment of its path is the field's name
Addressed(f) ==
    LET among(pairs) ==
          \E i \in 1..Len(pairs) :
             LET first(p) == ~p.err /\ p.path # <<>> /\ p.path[1].Key = tags(srcT)[f].Name
             IN first(parseKey(pairs[i].k))
    IN among(ParseQuery(out).pairs)

RECURSIVE Emits(_, _, _)
\* marshalValue adds at least one pair for the value v of type n, in build b
Emits(n, v, b) ==
    LET of(t) ==
          IF t.mm THEN TRUE
          ELSE CASE t.k = "ptr" -> ~v.nil /\ Emits(t.elem, v.p, b)
                 [] t.k = "slice" -> \E i \in 1..Len(v.e) : Emits(t.elem, v.e[i], b)
                 [] t.k = "map" -> \E k \in DOMAIN v.m : Emits(t.elem, v.m[k], b)
                 [] t.k = "struct" ->
                      \E i \in 1..Len(t.fields) :
                         ~Skipped(n, v, i, b) /\ Emits(t.fields[i].type, v[i], b)
                 [] OTHER -> TRUE
    IN of(TypeOf(n))

RECURSIVE Encodable(_, _)
\* the encode traversal of the value v of type n reaches no unexported
\* field (every unexported field is ignored, or omitted as empty) and no
\* value of a kind getScalar has no case for
Encodable(n, v) ==
    LET of(t) ==
          IF t.mm THEN TRUE
          ELSE CASE t.k = "ptr" -> v.nil \/ Encodable(t.elem, v.p)
                 [] t.k = "slice" -> \A i \in 1..Len(v.e) : Encodable(t.elem, v.e[i])
                 [] t.k = "map" -> \A k \in DOMAIN v.m : Encodable(t.elem, v.m[k])
                 [] t.k = "struct" ->
                      \A i \in 1..Len(t.fields) :
                         \/ \A b \in Builds : Skipped(n, v, i, b)
                         \/ Exported(t.fields[i]) /\ Encodable(t.fields[i].type, v[i])
                 [] OTHER -> t.k \in ScalarKinds
    IN of(TypeOf(n))

RECURSIVE Plain(_, _, _, _)
\* the values Unmarshal takes back from Marshal's output: v, of type n, is a
\* scalar, a custom-codec value whose text its UnmarshalForm accepts, an
\* optional pointer to a scalar or a record, a sequence that is empty or holds
\* scalars, at the
\* root a mapping of strings whose keys are not empty and hold no "[", or a
\* record of such fields; of the record's fields that are not ignored no
\* two have one name, and the name of one that emits a pair holds no "[",
\* or no "]" in a nested record.  With exact, the values that come back as
\* they were: besides, a custom-codec value is the one its UnmarshalForm
\* makes of its text, a float is no NaN (which Go's == holds equal to
\* nothing, itself included), a pointer points to something that emits a
\* pair, a sequence is nil or not empty, and an ignored field is zero
Plain(n, v, nested, exact) ==
    LET of(t) ==
          IF t.mm
          THEN \A b \in Builds :
                  IF exact
                  THEN UnmarshalForm(n, Zero(n), MarshalForm(n, v, b.march)) = Ok(v)
                  ELSE UnmarshalForm(n, Zero(n), MarshalForm(n, v, b.march)).st = "ok"
          ELSE CASE t.k = "float" -> ~exact \/ v # NaN
                 [] t.k \in ScalarKinds -> TRUE
                 [] t.k = "ptr" ->
                      \/ v.nil
                      \/ /\ Kind(t.elem) \in ScalarKinds \cup {"struct"}
                         /\ Plain(t.elem, v.p, nested, exact)
                         /\ exact => \A b \in Builds : Emits(t.elem, v.p, b)
                 [] t.k = "slice" ->
                      /\ exact => (v.nil \/ v.e # <<>>)
                      /\ v.e # <<>> => (Kind(t.elem) \in ScalarKinds /\ ~TypeOf(t.elem).mm)
                      /\ \A i \in 1..Len(v.e) : Plain(t.elem, v.e[i], TRUE, exact)
                 [] t.k = "map" ->
                      /\ ~nested
                      /\ Kind(t.key) = "string"
                      /\ Kind(t.elem) = "string"
                      /\ \A k \in DOMAIN v.m : k # <<>> /\ PosIn(k, "[") = 0
                 [] t.k = "struct" ->
                      \A i \in 1..Len(t.fields) :
                         IF tags(n)[i].Ignore
                         THEN exact => v[i] = Zero(t.fields[i].type)
                         ELSE /\ \A j \in 1..Len(t.fields) :
                                    (j # i /\ ~tags(n)[j].Ignore)
                                       => tags(n)[j].Name # tags(n)[i].Name
                              /\ (\E b \in Builds :
                                     ~Skipped(n, v, i, b) /\ Emits(t.fields[i].type, v[i], b))
                                    => PosIn(tags(n)[i].Name, IF nested THEN "]" ELSE "[") = 0
                              /\ Plain(t.fields[i].type, v[i], TRUE, exact)
                 [] OTHER -> FALSE
    IN of(TypeOf(n))

TypedTypes == SourceTypes \ {DynT}

RECURSIVE HasNaN(_, _)
\* the value v of type n holds a NaN
HasNaN(n, v) ==
    LET of(t) ==
          CASE t.k = "float" -> v = NaN
            [] t.k = "ptr" -> ~v.nil /\ HasNaN(t.elem, v.p)
            [] t.k = "slice" -> \E i \in 1..Len(v.e) : HasNaN(t.elem, v.e[i])
            [] t.k = "map" -> \E k \in DOMAIN v.m : HasNaN(t.elem, v.m[k])
            [] t.k = "struct" -> \E i \in 1..Len(t.fields) : HasNaN(t.fields[i].type, v[i])
            [] OTHER -> FALSE
    IN of(TypeOf(n))

\* the values a and b of type n are equal as Go compares them, part by
\* part: a NaN is equal to nothing, itself included
SameValue(n, a, b) == a = b /\ ~HasNaN(n, a)

KeysSorted(pairs) ==
    \A i \in 1..(Len(pairs) - 1) : ~StrLess(pairs[i + 1].k, pairs[i].k)

\* C9 as stated: Marshal's pairs are ordered by rendered key, and whatever
\* order the mapping entries are iterated in, Marshal of the same value
\* returns the same bytes (in one build of the program)
C9_Deterministic ==
    (pc \in {"unmarshal", "done"} /\ merr = "nil")
        => /\ KeysSorted(ParseQuery(out).pairs)
           /\ \E b \in Builds : \A ord \in OrdersOf(srcT, src) :
                 Marshal(srcT, src, Runtime(b, ord)).bytes = out

\* a value with two positions that render to one key, marshalled, and an
\* iteration order under which Marshal returns other bytes
C9_Witness ==
    /\ pc = "unmarshal"
    /\ srcT = DynT
    /\ DOMAIN src.m = {<<"a">>, <<"a", "[", "b", "]">>}
    /\ \A b \in Builds : \E ord \in OrdersOf(srcT, src) :
          Marshal(srcT, src, Runtime(b, ord)).bytes # out

-----------------------------------------------------------------------------
(* Properties of CacheSpec *)

\* C10 as stated: under concurrent calls of tags() for a type that is not
\* cached yet, the tags of the type are derived by at most one of the calls
C10_DerivedAtMostOnce == \A t \in RecordTypes : derived[t] <= 1

\* two goroutines have both missed the cache for Person and one of them has
\* derived its tags
C10_Witness ==
    /\ gtype[1] = "Person"
    /\ gtype[2] = "Person"
    /\ gpc[1] = "store"
    /\ gpc[2] = "derive"
    /\ "Person" \notin DOMAIN cache

\* the field metadata the declarations of Person and Address stand for, one
\* entry per field in declaration order
Metadata(t) ==
    CASE t = "Person" -> <<Tag(s_name, FALSE, FALSE), Tag(s_age, TRUE, FALSE),
                           Tag(s_pronouns, FALSE, FALSE)>>
      [] t = "Address" -> <<Tag(s_street, FALSE, FALSE), Tag(s_city, FALSE, FALSE),
                            Tag(s_state, FALSE, FALSE), Tag(s_zip, FALSE, FALSE)>>

\* C11: under every interleaving of tags() calls, a call that has returned
\* holds one entry per declared field of its type, in declaration order,
\* equal to the metadata of the type's tags; every stored entry is that
\* metadata too, and from one step to the next no entry is removed or
\* changes its content
C11_CompleteEntries ==
    /\ [](/\ \A t \in DOMAIN cache : cache[t] = Metadata(t)
          /\ \A g \in Goroutines :
                (gpc[g] = "idle" /\ gtype[g] # "nil") => gtags[g] = Metadata(gtype[g]))
    /\ [][\A t \in DOMAIN cache : t \in DOMAIN cache' /\ cache'[t] = cache[t]]_vars

\* both goroutines missed the cache for Person, each stored its entry, and
\* both have returned
C11_Witness ==
    /\ derived["Person"] = 2
    /\ "Person" \in DOMAIN cache
    /\ \A g \in Goroutines : gpc[g] = "idle" /\ gtype[g] = "Person"

-----------------------------------------------------------------------------
(* CodecSpec: values and targets with custom codec hooks.  Marshal of a     *)
(* source that holds a MyDate or an Animal (at the root, in a field, in a   *)
(* mapping, in a sequence) followed by Unmarshal of the bytes, and          *)
(* Unmarshal of form data into a ComplexPerson, a Profile or a              *)
(* map[string]Animal.                                                       *)

\* the dates a dynamic mapping holds: those in UTC and in a fixed zone
CodecDates == {d \in DateSources : d[3] # LocalZone}

CodecSources(n) ==
    CASE n = "MyDate" -> DateSources
      [] n = "ComplexPerson" ->
           {<<IntZero, nm, IntZero, NilSlice, MyDateOf(d), pv, NilPtr>> :
               nm \in {<<>>, <<"a", "l">>}, d \in {s_date, ZeroDate},
               pv \in {<<>>, <<"x">>}}
      [] n = "Profile" ->
           {<<NilPtr, a, NilSlice>> :
               a \in {IntZero, IntVal(FALSE, <<"1">>), IntVal(FALSE, <<"2">>)}}
      [] n = DynT ->
           {MapVal(<<"d">> :> Iface("MyDate", d)) : d \in CodecDates} \cup
           {MapVal(<<"d">> :> Iface("MyDate", MyDateOf(s_date))),
            MapVal(<<"d">> :> Iface("[]MyDate", SliceVal(<<MyDateOf(s_date)>>))),
            MapVal(<<"e">> :> Iface(DynT, MapVal(<<"s">> :> Iface("MyDate", MyDateOf(s_date))))),
            MapVal((<<"d">> :> Iface("MyDate", MyDateOf(ZeroDate)))
                   @@ (<<"n">> :> Iface("string", <<"x">>)))}

CodecSourceTypes == {"MyDate", "ComplexPerson", "Profile", DynT}

CodecTargets == {"ComplexPerson", "Profile", "map[string]Animal"}

CodecKeys(n) ==
    CASE n = "ComplexPerson" ->
           {s_created_at, s_name, s_created_at \o <<"[", "w", "a", "l", "l", "]">>}
      [] n = "Profile" -> {<<"p">>}
      [] n = "map[string]Animal" -> {<<"a">>, <<"b">>}

\* a date, a text that is no date, an Animal's name
CodecLeaves(n) ==
    IF n = "ComplexPerson" THEN {s_date, <<"x">>} ELSE {s_gopher, s_zebra}

CodecInit ==
    \/ \E n \in CodecSourceTypes : \E v \in CodecSources(n) : EncodeInit(n, v)
    \/ \E n \in CodecTargets :
          \E len \in 1..MaxPairs :
             \E ks \in [1..len -> CodecKeys(n)] :
                \E vs \in [1..len -> CodecLeaves(n)] :
                   DecodeInit(n, Query([i \in 1..len |-> [k |-> ks[i], v |-> vs[i]]]))

CodecNext == MarshalSource \/ UnmarshalCall \/ RangeNext \/ AssignStep \/ RangeEnd

CodecSpec == CodecInit /\ [][CodecNext]_vars

-----------------------------------------------------------------------------
(* Properties of CodecSpec *)

RECURSIVE HookLeaves(_, _, _, _)
\* the positions of value v of type n that the encode traversal reaches and
\* whose type supplies MarshalForm, each with its path and the hook's result;
\* the traversal passes over ignored, unnamed and omitted-empty fields and
\* over nil pointers and nil interface values. Whether the build counts a
\* negative zero as empty makes no difference: no hook lies below a float
HookLeaves(n, v, path, march) ==
    LET reached(tag, ft, fv) ==
          ~tag.Ignore /\ tag.Name # <<>> /\ ~(tag.Omit /\ isEmptyValue(ft, fv, TRUE))
        field(tag, ft, fv) ==
          IF reached(tag, ft, fv) THEN HookLeaves(ft, fv, Append(path, tag.Name), march) ELSE {}
        of(t) ==
          IF t.k = "ptr" THEN (IF v.nil THEN {} ELSE HookLeaves(t.elem, v.p, path, march))
          ELSE IF t.k = "iface" THEN (IF v.nil THEN {} ELSE HookLeaves(v.dt, v.dv, path, march))
          ELSE IF t.mm THEN {[path |-> path, text |-> MarshalForm(n, v, march)]}
          ELSE CASE t.k = "struct" ->
                      UNION {field(tags(n)[i], t.fields[i].type, v[i]) :
                                i \in 1..Len(t.fields)}
                 [] t.k = "map" ->
                      UNION {HookLeaves(t.elem, v.m[k], Append(path, k), march) : k \in DOMAIN v.m}
                 [] t.k = "slice" ->
                      UNION {HookLeaves(t.elem, v.e[i], Append(path, <<>>), march) :
                                i \in 1..Len(v.e)}
                 [] OTHER -> {}
    IN of(TypeOf(n))

\* the key a path renders to; the path of the root is empty
PathKey(path) == IF path = <<>> THEN <<>> ELSE renderPath(path)

RECURSIVE LeafType(_, _)
\* the type of the slot a path ends at in a target of type n, "" when the
\* path names no slot of a record, a typed mapping or a typed sequence
LeafType(n, path) ==
    LET field(i, t) == IF i = 0 \/ ~Exported(t.fields[i]) THEN ""
                       ELSE LeafType(t.fields[i].type, Tail(path))
        of(t) ==
          IF t.k = "ptr" THEN LeafType(t.elem, path)
          ELSE IF path = <<>> THEN n
          ELSE CASE t.k = "struct" -> field(findStructField(n, path[1].Key), t)
                 [] t.k = "map" /\ Kind(t.elem) \notin {"iface", "slice"} ->
                      LeafType(t.elem, Tail(path))
                 [] t.k = "slice" /\ path[1].Index -> LeafType(t.elem, Tail(path))
                 [] OTHER -> ""
    IN of(TypeOf(n))

RECURSIVE SlotValue(_, _, _)
\* the value of that slot in the value v of type n
SlotValue(n, v, path) ==
    LET of(t) ==
          IF t.k = "ptr" THEN SlotValue(t.elem, v.p, path)
          ELSE IF path = <<>> THEN v
          ELSE CASE t.k = "struct" ->
                      SlotValue(t.fields[findStructField(n, path[1].Key)].type,
                                v[findStructField(n, path[1].Key)], Tail(path))
                 [] t.k = "map" -> SlotValue(t.elem, v.m[path[1].Key], Tail(path))
                 [] t.k = "slice" -> SlotValue(t.elem, Last(v.e), Tail(path))
    IN of(TypeOf(n))

\* the pair at path p is the only one of its key, holds text, and no pair
\* lies below p
OneLeafAt(pairs, p, text) ==
    /\ Cardinality({i \in 1..Len(pairs) : pairs[i].k = PathKey(p)}) = 1
    /\ \A i \in 1..Len(pairs) :
          /\ pairs[i].k = PathKey(p) => pairs[i].v = text
          /\ ~IsPrefix(PathKey(p) \o <<"[">>, pairs[i].k)

\* C12 as stated: once Marshal has returned, it has succeeded and for every
\* position of the source whose type supplies MarshalForm (the root and a
\* record type included) the output holds exactly one pair at the position's
\* path, with the hook's result, and none below it; and every assign step
\* whose path ends at a slot whose type supplies UnmarshalForm stores what
\* the hook returns for the value, or ends the call with the hook's error
C12_HookPriority ==
    /\ []((srcT \in CodecSourceTypes /\ pc # "marshal")
            => /\ merr = "nil"
               /\ \E b \in Builds : \A h \in HookLeaves(srcT, src, <<>>, b.march) :
                     OneLeafAt(ParseQuery(out).pairs, h.path, h.text))
    /\ [][(pc = "assign" /\ LeafType(argT, curPath) # ""
             /\ TypeOf(LeafType(argT, curPath)).um)
           => LET hooked(r) ==
                    IF r.st = "ok"
                    THEN /\ err' = "none"
                         /\ SlotValue(argT, target', curPath) = r.v
                    ELSE pc' = "returned" /\ err' = "error"
                  slot(t) == hooked(UnmarshalForm(t, Zero(t), Head(curVals)))
              IN slot(LeafType(argT, curPath))]_vars

\* Marshal of a MyDate, a record type that supplies MarshalForm, at the
\* root: the call panicked and returned nothing
C12_Witness ==
    /\ srcT = "MyDate"
    /\ src = MyDateOf(s_date)
    /\ pc = "done"
    /\ merr = "panic"
    /\ out = <<>>

-----------------------------------------------------------------------------
(* CallSpec: the checks Marshal and Unmarshal make on their arguments.     *)
(* Marshal of nil, of pointers, of roots of every shape and of values that *)
(* hold a channel, a function or a complex number, followed by Unmarshal    *)
(* of the bytes; and Unmarshal of empty, blank and well-formed data with    *)
(* nil, a value, a nil pointer or a pointer as its target argument.         *)

\* make(chan int) and func() {}
Made == [nil |-> FALSE]

\* complex128(1 + 2i)
OnePlus2i == [re |-> FloatVal(FALSE, <<"1">>, <<>>), im |-> FloatVal(FALSE, <<"2">>, <<>>)]

CallSources(n) ==
    CASE n = "nil" -> {NilIface}
      [] n = "*Person" -> {NilPtr, PtrVal(<<s_al, IntZero, NilSlice>>)}
      [] n = "Person" -> {<<s_al, IntZero, NilSlice>>, <<<<>>, IntVal(FALSE, <<"7">>), NilSlice>>}
      [] n = "map[string]string" -> {NilMap, MapVal(<<>>), MapVal(<<"a">> :> <<"x">>)}
      [] n = "map[int]string" ->
           {NilMap, MapVal(<<>>), MapVal(IntVal(FALSE, <<"1">>) :> <<"x">>)}
      [] n = "string" -> {<<>>, <<"x">>}
      [] n = "*string" -> {NilPtr, PtrVal(<<"x">>)}
      [] n = "int" -> {IntVal(FALSE, <<"7">>)}
      [] n = "float64" -> {FloatZero}
      [] n = "Gauge" -> {<<FloatZero>>, <<NegZero>>, <<FloatVal(FALSE, <<"1">>, <<"5">>)>>}
      [] n = "bool" -> {TRUE}
      [] n = "[]string" -> {NilSlice, SliceVal(<<s_he>>)}
      [] n = "chan int" -> {Made}
      [] n = "func()" -> {Made}
      [] n = "complex128" -> {OnePlus2i}
      [] n = "Pipe" -> {<<Made>>, <<[nil |-> TRUE]>>}
      [] n = DynT ->
           {MapVal(<<"c">> :> Iface("chan int", Made)),
            MapVal(<<"c">> :> Iface("complex128", OnePlus2i)),
            MapVal(<<"s">> :> Iface("[]interface{}",
                                    SliceVal(<<Iface("string", <<"x">>),
                                               Iface("func()", Made)>>))),
            MapVal(<<"a">> :> Iface("string", <<"x">>)),
            MapVal(<<>>), NilMap}

CallSourceTypes ==
    {"nil", "*Person", "Person", "map[string]string", "map[int]string", "string",
     "*string",
     "int", "float64", "bool", "[]string", "chan int", "func()", "complex128",
     "Pipe", "Gauge", DynT}

CallTargetTypes ==
    {"Person", "*Person", "map[string]string", "map[int]string", "string", "int",
     "[]string", DynT}

\* empty, blank (spaces; tab and line feed; space and U+00A0), one pair,
\* one pair in white space, two pairs
CallData ==
    {<<>>, <<" ">>, <<" ", " ">>, <<"\t", "\n">>, <<" ", "xC2", "xA0">>,
     Query(<<[k |-> s_name, v |-> s_al]>>),
     <<" ">> \o Query(<<[k |-> s_name, v |-> s_al]>>) \o <<"\r", "\n">>,
     Query(<<[k |-> s_name, v |-> s_al], [k |-> <<"a">>, v |-> <<"x">>]>>)}

CallSpecInit ==
    \/ \E n \in CallSourceTypes : \E v \in CallSources(n) : EncodeInit(n, v)
    \/ \E d \in CallData :
          \/ CallInit("nil", "nil", d)
          \/ \E a \in {"value", "nilptr", "ptr"} : \E n \in CallTargetTypes :
                (a = "value" => Kind(n) # "ptr") /\ CallInit(a, n, d)

CallSpecNext == MarshalSource \/ UnmarshalCall \/ RangeNext \/ AssignStep \/ RangeEnd

CallSpec == CallSpecInit /\ [][CallSpecNext]_vars

-----------------------------------------------------------------------------
(* Properties of CallSpec *)

RECURSIVE MeetsUnsupported(_, _)
\* the encode traversal of value v of type n meets a value of channel,
\* function or complex-number kind: v itself, or below it in a field that is
\* not passed over, a mapping value or a sequence element. Whether the
\* build counts a negative zero as empty makes no difference: nothing lies
\* below a float
MeetsUnsupported(n, v) ==
    LET reached(tag, ft, fv) ==
          ~tag.Ignore /\ tag.Name # <<>> /\ ~(tag.Omit /\ isEmptyValue(ft, fv, TRUE))
        of(t) ==
          IF t.k \in {"ptr", "iface"} /\ v.nil THEN FALSE
          ELSE IF t.k = "ptr" THEN MeetsUnsupported(t.elem, v.p)
          ELSE IF t.k = "iface" THEN MeetsUnsupported(v.dt, v.dv)
          ELSE IF t.mm THEN FALSE
          ELSE CASE t.k \in {"chan", "func", "complex"} -> TRUE
                 [] t.k = "struct" ->
                      \E i \in 1..Len(t.fields) :
                         /\ reached(tags(n)[i], t.fields[i].type, v[i])
                         /\ MeetsUnsupported(t.fields[i].type, v[i])
                 [] t.k = "map" -> \E k \in DOMAIN v.m : MeetsUnsupported(t.elem, v.m[k])
                 [] t.k = "slice" ->
                      \E i \in 1..Len(v.e) : MeetsUnsupported(t.elem, v.e[i])
                 [] OTHER -> FALSE
    IN IF n = "nil" THEN FALSE ELSE of(TypeOf(n))

\* C13 as stated: Marshal of a value in which it meets a channel, a function
\* or a complex number, at the root, in a record field, as a mapping value
\* or as a sequence element, returns an error and no output, and does not
\* panic
C13_UnsupportedIsError ==
    (srcT \in CallSourceTypes /\ pc # "marshal" /\ MeetsUnsupported(srcT, src))
        => (merr = "error" /\ out = <<>>)

\* Marshal of a record whose field holds a channel has panicked
C13_Witness ==
    /\ srcT = "Pipe"
    /\ src = <<Made>>
    /\ pc = "done"
    /\ merr = "panic"

\* the message the tests expect of an invalid target: nil, a T, a nil *T
WantMsg(a, n) ==
    CASE a = "nil" -> <<"form: Unmarshal(nil)">>
      [] a = "value" -> <<"form: Unmarshal(non-pointer ", n, ")">>
      [] a = "nilptr" -> <<"form: Unmarshal(nil ", "*", n, ")">>

\* C14 as stated: for every input, empty or not, Unmarshal with a target
\* that is nil, no pointer or a nil pointer returns an InvalidUnmarshalError
\* whose message has the form for the case, and decodes nothing
C14_InvalidTarget ==
    (pc = "returned" /\ arg # "ptr")
        => /\ err = "InvalidUnmarshalError"
           /\ Error(ArgType(arg, argT)) = WantMsg(arg, argT)
           /\ applied = <<>>
           /\ values = <<>>

\* Unmarshal of empty data with a nil *Person as its target has returned
\* the error of the empty input
C14_Witness ==
    /\ pc = "returned"
    /\ arg = "nilptr"
    /\ argT = "Person"
    /\ data = <<>>
    /\ err = "error"

\* the root check of Unmarshal passes: a struct or a map with string keys
\* ("nil" names the interface type of a nil value)
RootOK(n) ==
    LET ok(t) == t.k = "struct" \/ (t.k = "map" /\ Kind(t.key) = "string")
    IN n # "nil" /\ ok(TypeOf(n))

RECURSIVE IsBlank(_)
\* the input is empty or holds white space only
IsBlank(d) ==
    \/ d = <<>>
    \/ \E w \in WhiteSpace :
          /\ Len(w) <= Len(d)
          /\ SubSeq(d, 1, Len(w)) = w
          /\ IsBlank(SubSeq(d, Len(w) + 1, Len(d)))

\* the target as it was handed to Unmarshal
Untouched ==
    target = IF arg = "nil" THEN NilIface
             ELSE IF arg = "nilptr" THEN NilPtr ELSE Zero(argT)

\* C15 as stated: Unmarshal of an input that is empty or holds white space
\* only returns an error and never reaches the assignment of a pair
C15_BlankRejectedAll ==
    IsBlank(data)
        => /\ pc # "assign"
           /\ applied = <<>>
           /\ pc = "returned" => err # "nil"

\* C15, amended: Unmarshal of an input that is empty or holds white space
\* only never reaches the assignment of a pair and leaves its target as
\* it was; the empty input is an error, the input of white space is an
\* error only if the target is one (no non-nil pointer, or a root that is
\* no struct and no map with string keys) and succeeds otherwise
C15_BlankInput ==
    IsBlank(data)
        => /\ pc # "assign"
           /\ applied = <<>>
           /\ Untouched
           /\ pc = "returned"
                 => err = IF data = <<>> THEN "error"
                          ELSE IF arg # "ptr" THEN "InvalidUnmarshalError"
                          ELSE IF RootOK(argT) THEN "nil" ELSE "error"

\* Unmarshal of two spaces into a *Person has returned nil
C15_Witness ==
    /\ pc = "returned"
    /\ data = <<" ", " ">>
    /\ arg = "ptr"
    /\ argT = "Person"
    /\ err = "nil"
    /\ applied = <<>>

\* the type Marshal checks: the type of v, or what v points to
RootType(n) == LET root(t) == IF t.k = "ptr" THEN t.elem ELSE n IN root(TypeOf(n))

\* C16: Unmarshal into a pointer to a root that is no struct and no map
\* with string keys returns an error and leaves the target as it was;
\* Marshal of such a root, behind a non-nil pointer or not, returns an
\* error and no bytes
C16_RootShape ==
    /\ (pc = "returned" /\ arg = "ptr" /\ ~RootOK(argT))
          => /\ err = "error"
             /\ applied = <<>>
             /\ Untouched
    /\ (/\ merr # "none"
        /\ srcT # "nil"
        /\ ~(Kind(srcT) = "ptr" /\ src.nil)
        /\ ~RootOK(RootType(srcT)))
          => /\ merr = "error"
             /\ out = <<>>

\* Marshal of a nil map[int]string has returned an error
C16_Witness ==
    /\ pc = "done"
    /\ srcT = "map[int]string"
    /\ src = NilMap
    /\ merr = "error"
    /\ out = <<>>

\* v of type n is a nil or an empty map
EmptyMap(n, v) == Kind(n) = "map" /\ (v.nil \/ DOMAIN v.m = {})

\* v of type n is a nil pointer
NilPointer(n, v) == Kind(n) = "ptr" /\ v.nil

\* C17 as stated: Marshal of nil, of a nil pointer, of a nil map or of an
\* empty map returns empty output and no error
C17_NilRootAll ==
    (/\ merr # "none"
     /\ srcT = "nil" \/ NilPointer(srcT, src) \/ EmptyMap(srcT, src))
        => /\ merr = "nil"
           /\ out = <<>>

\* C17, amended: Marshal of nil, of a nil pointer of any type, or of a nil
\* or empty map with string keys returns empty output and no error; of a
\* nil or empty map with other keys it returns an error and no output
C17_NilRoot ==
    /\ (/\ merr # "none"
        /\ \/ srcT = "nil"
           \/ NilPointer(srcT, src)
           \/ EmptyMap(srcT, src) /\ RootOK(srcT))
          => /\ merr = "nil"
             /\ out = <<>>
    /\ (merr # "none" /\ srcT # "nil" /\ EmptyMap(srcT, src) /\ ~RootOK(srcT))
          => /\ merr = "error"
             /\ out = <<>>

\* Marshal of a nil *string has returned empty output and no error
C17_Witness ==
    /\ srcT = "*string"
    /\ src = NilPtr
    /\ merr = "nil"
    /\ out = <<>>

-----------------------------------------------------------------------------
(* TagSpec: Marshal of records with ignored and untagged fields followed by *)
(* Unmarshal of its output, and Unmarshal of pairs whose keys are the tag   *)
(* names and the declared identifiers of such fields.                       *)

TagTypes == {"IgnoredFieldsForm", "Hidden", "Sealed", "Shadow"}

MaxTagPairs == 2

TagSources(n) ==
    LET text == {<<>>, <<"v">>}
    IN CASE n = "IgnoredFieldsForm" ->
              {<<a, b, c, d, e, f, MyDateOf(g)>> :
                  a \in {<<"v">>}, b \in text, c \in text, d \in text, e \in text,
                  f \in text, g \in {s_date, ZeroDate}}
         [] n = "Hidden" -> {<<a, b, c, d>> : a \in text, b \in text, c \in text, d \in text}
         [] n = "Sealed" -> SealedSources
         [] n = "Shadow" -> {<<a, b>> : a \in text, b \in text}

\* the name a field's tag gives it: what stands before the first comma
TagName(f) == TrimSpace(Head(Split(f.tag, ",")))

\* the tag names and the declared identifiers of the fields
TagKeys(n) ==
    {Fields(n)[i].name : i \in 1..Len(Fields(n))}
       \cup ({TagName(Fields(n)[i]) : i \in 1..Len(Fields(n))} \ {<<>>})

TagInit ==
    \/ \E n \in TagTypes : \E v \in TagSources(n) : EncodeInit(n, v)
    \/ \E n \in TagTypes :
          \E len \in 1..MaxTagPairs :
             \E ks \in [1..len -> TagKeys(n)] :
                DecodeInit(n, Query([i \in 1..len |-> [k |-> ks[i], v |-> s_date]]))

TagNext == MarshalSource \/ UnmarshalCall \/ RangeNext \/ AssignStep \/ RangeEnd

TagSpec == TagInit /\ [][TagNext]_vars

-----------------------------------------------------------------------------
(* Properties of TagSpec *)

\* the fields whose tag is "-", has the name "-" or carries the ignore flag
IgnoredFields(n) == {i \in 1..Len(Fields(n)) : tags(n)[i].Ignore}

\* the keys that name an ignored field: its declared identifier or the
\* name in its tag
IgnoredKeys(n) ==
    {Fields(n)[i].name : i \in IgnoredFields(n)}
       \cup ({TagName(Fields(n)[i]) : i \in IgnoredFields(n)} \ {<<>>})

\* the fields that are not ignored and whose tag has no name; in the
\* records of TagTypes they are strings
Unnamed(n) ==
    {i \in 1..Len(Fields(n)) : ~tags(n)[i].Ignore /\ TagName(Fields(n)[i]) = <<>>}

\* the names of the fields of a record of type n that are not ignored
LiveNames(n) == {tags(n)[i].Name : i \in (1..Len(Fields(n))) \ IgnoredFields(n)}

\* C18 as stated: Marshal emits no pair for an ignored field, whatever the
\* field holds (a pair under a key that names one is the pair of a field
\* that is not ignored), and a pair under the declared identifier for a
\* field without a tag name (unless it is empty and omitted); Unmarshal
\* never sets an ignored field, an assign step under a key naming one ends
\* the call with an error and the target as it was, and an assign step
\* under the declared identifier of a field without a tag name sets it
C18_IgnoredFields ==
    /\ []((srcT \in TagTypes /\ merr # "none")
            => LET emitted(pairs) ==
                     /\ \A i \in 1..Len(pairs) :
                           pairs[i].k \in IgnoredKeys(srcT) => pairs[i].k \in LiveNames(srcT)
                     /\ \A f \in Unnamed(srcT) :
                           (tags(srcT)[f].Omit /\ src[f] = <<>>)
                              # (\E i \in 1..Len(pairs) :
                                    pairs[i] = [k |-> Fields(srcT)[f].name, v |-> src[f]])
               IN emitted(ParseQuery(out).pairs))
    /\ [](argT \in TagTypes
            => \A f \in IgnoredFields(argT) : target[f] = Zero(Fields(argT)[f].type))
    /\ [][(pc = "assign" /\ argT \in TagTypes)
           => LET named(key) ==
                    /\ key \in IgnoredKeys(argT)
                          => pc' = "returned" /\ err' = "error" /\ target' = target
                    /\ \A f \in Unnamed(argT) :
                          key = Fields(argT)[f].name
                             => target'[f] = Head(curVals) /\ err' = "none"
              IN named(curPath[1].Key)]_vars

\* Marshal of a record whose unexported field secret has no tag name and
\* holds text has panicked
C18_Witness ==
    /\ srcT = "Sealed"
    /\ src[3] = <<"v">>
    /\ merr = "panic"
    /\ pc = "done"
    /\ out = <<>>

-----------------------------------------------------------------------------
(* Properties of Spec: the order of the assign calls *)

\* the pairs of the input, in the order they stand in it
InputPairs == ParseQuery(TrimSpace(data)).pairs

\* the i-th assign call was made for the j-th pair of the input
AppliedIs(i, j) ==
    /\ j <= Len(InputPairs)
    /\ applied[i].val = InputPairs[j].v
    /\ applied[i].path = parseKey(InputPairs[j].k).path

\* C19 as stated: the assign calls made so far are for the first pairs of
\* the input, one call per pair, in the order of the input, also where
\* neighbouring pairs differ in their keys
C19_InputOrder == \A i \in 1..Len(applied) : AppliedIs(i, i)

\* Unmarshal has returned nil after its first assign call was made for the
\* second pair of the input, whose key is not that of the first pair
C19_Witness ==
    /\ pc = "returned"
    /\ err = "nil"
    /\ Len(applied) >= 2
    /\ InputPairs[1].k # InputPairs[2].k
    /\ AppliedIs(1, 2)
    /\ ~AppliedIs(1, 1)

-----------------------------------------------------------------------------
(* KeySpec: parseKey called on a key of up to MaxKeyLen characters, each a  *)
(* letter or a bracket.                                                     *)

MaxKeyLen == 4

KeyChars == {"a", "[", "]"}

Keys == UNION {[1..len -> KeyChars] : len \in 0..MaxKeyLen}

KeyInit ==
    \E key \in Keys :
       /\ pc = "parseKey"
       /\ arg = "nil"
       /\ argT = "nil"
       /\ data = key
       /\ values = <<>>
       /\ todo = {}
       /\ curPath = <<>>
       /\ curVals = <<>>
       /\ target = NilIface
       /\ err = "none"
       /\ applied = <<>>
       /\ srcT = "nil"
       /\ src = NilIface
       /\ out = <<>>
       /\ merr = "none"
       /\ cache = <<>>
       /\ gpc = <<>>
       /\ gtype = <<>>
       /\ gtags = <<>>
       /\ derived = <<>>

\* path, err := parseKey(key)
ParseKeyCall ==
    /\ pc = "parseKey"
    /\ LET parsed(p) == /\ curPath' = p.path
                        /\ err' = IF p.err THEN "error" ELSE "nil"
       IN parsed(parseKey(data))
    /\ pc' = "parsed"
    /\ UNCHANGED <<arg, argT, data, values, todo, curVals, target, applied,
                   srcT, src, out, merr>>
    /\ CacheIdle

KeyNext == ParseKeyCall

KeySpec == KeyInit /\ [][KeyNext]_vars

-----------------------------------------------------------------------------
(* Properties of KeySpec *)

\* the key holds a [ with no ] anywhere after it
OpenBracket(key) ==
    \E i \in 1..Len(key) :
       key[i] = "[" /\ \A j \in (i + 1)..Len(key) : key[j] # "]"

\* C20: parseKey returns the syntax error exactly for the keys that hold a
\* [ with no ] after it, and a path for every other key
C20_SyntaxError == pc = "parsed" => (err = "error") = OpenBracket(data)

\* parseKey has failed on a][, whose only ] stands before the [
C20_Witness ==
    /\ pc = "parsed"
    /\ data = <<"a", "]", "[">>
    /\ err = "error"

RECURSIVE GroupSegments(_)
\* one segment per [...] group of s, from each [ to the first ] after it:
\* the index marker for empty contents, a named segment otherwise
GroupSegments(s) ==
    LET group(r, j) ==
          <<IF j = 1 THEN IndexSeg ELSE NamedSeg(SubSeq(r, 1, j - 1))>>
             \o GroupSegments(SubSeq(r, j + 1, Len(r)))
        from(r) == group(r, IndexByte(r, "]"))
        at(i) == IF i = 0 THEN <<>> ELSE from(SubSeq(s, i + 1, Len(s)))
    IN at(IndexByte(s, "["))

\* the segments of a key that parses: a named segment for the text before
\* the first [, if there is any, then the segments of the groups; the key
\* itself if it has no bracket
Segmentation(key) ==
    LET split(i) ==
          IF i = 0 THEN <<NamedSeg(key)>>
          ELSE (IF i > 1 THEN <<NamedSeg(SubSeq(key, 1, i - 1))>> ELSE <<>>)
                  \o GroupSegments(key)
    IN split(IndexByte(key, "["))

\* C21 as stated: for a key that parses, parseKey returns a named segment
\* for the text before the first [ if there is any, then one segment per
\* [...] group, one named segment for a key without brackets, and no
\* segment for any other text of the key
C21_Segmentation == (pc = "parsed" /\ err = "nil") => curPath = Segmentation(data)

\* parseKey of a[]a has returned three segments, the last of them for the
\* text after the group
C21_Witness ==
    /\ pc = "parsed"
    /\ err = "nil"
    /\ data = <<"a", "[", "]", "a">>
    /\ curPath = <<NamedSeg(<<"a">>), IndexSeg, NamedSeg(<<"a">>)>>

-----------------------------------------------------------------------------
(* InferSpec: Unmarshal of up to MaxPairs pairs into a                      *)
(* map[string]interface{} that is empty or already holds, under a, nothing  *)
(* (a nil interface), a map[string]interface{} that is nil, or one with an  *)
(* entry.                                                                   *)

InferTargets ==
    {Zero(DynT),
     MapVal(<<"a">> :> NilIface),
     MapVal(<<"a">> :> Iface(DynT, NilMap)),
     MapVal(<<"a">> :> Iface(DynT, MapVal(<<"c">> :> Iface("string", <<"z">>))))}

InferInit ==
    \E t \in InferTargets :
       \E len \in 1..MaxPairs :
          \E ks \in [1..len -> DynKeys] :
             CallInitTo("ptr", DynT,
                        Query([i \in 1..len |-> [k |-> ks[i], v |-> LeafAt(DynT, i)]]), t)

InferNext == UnmarshalCall \/ RangeNext \/ AssignStep \/ RangeEnd

InferSpec == InferInit /\ [][InferNext]_vars

-----------------------------------------------------------------------------
(* Properties of InferSpec *)

\* C22 as stated: an assign step into a map[string]interface{}, which
\* hands the entry found under the first segment, the rest of the path and
\* the leaf to inferInterfaceValue, neither returns an error nor panics,
\* whatever shape the entry has
C22_InferenceTotal ==
    [][(pc = "assign" /\ argT = DynT) => err' \notin {"error", "panic"}]_vars

\* Unmarshal into a map[string]interface{} has panicked on a[b] after it
\* had stored a string under a
C22_Witness ==
    /\ pc = "returned"
    /\ err = "panic"
    /\ argT = DynT
    /\ Len(applied) = 2
    /\ applied[1].path = <<NamedSeg(<<"a">>)>>
    /\ applied[2].path = <<NamedSeg(<<"a">>), NamedSeg(<<"b">>)>>
    /\ target = MapVal(<<"a">> :> Iface("string", applied[1].val))

-----------------------------------------------------------------------------
(* MergeSpec: Unmarshal into a map[string]interface{} of up to MaxPairs     *)
(* pairs whose keys are paths of named segments with shared prefixes.       *)

\* keys: a, b, a[b], a[c], a[b][c], a[b][d], and [a], which has the path
\* of a
MergeKeys ==
    {<<"a">>, <<"b">>, <<"a", "[", "b", "]">>, <<"a", "[", "c", "]">>,
     <<"a", "[", "b", "]", "[", "c", "]">>, <<"a", "[", "b", "]", "[", "d", "]">>,
     <<"[", "a", "]">>}

MergeInit ==
    \E len \in 1..MaxPairs :
       \E ks \in [1..len -> MergeKeys] :
          DecodeInit(DynT, Query([i \in 1..len |-> [k |-> ks[i], v |-> LeafAt(DynT, i)]]))

MergeNext == UnmarshalCall \/ RangeNext \/ AssignStep \/ RangeEnd

MergeSpec == MergeInit /\ [][MergeNext]_vars

-----------------------------------------------------------------------------
(* Properties of MergeSpec *)

\* the paths of the input's keys
InputPaths ==
    LET paths(pairs) == {parseKey(pairs[i].k).path : i \in 1..Len(pairs)}
    IN paths(InputPairs)

\* the value of the last pair of the input whose key has the path p
LastLeaf(p) ==
    LET last(pairs) ==
          LET at == {i \in 1..Len(pairs) : parseKey(pairs[i].k).path = p}
          IN pairs[CHOOSE i \in at : \A j \in at : j <= i].v
    IN last(InputPairs)

\* no path of the input is the beginning of a longer one
PrefixFree ==
    \A p, q \in InputPaths : Len(p) < Len(q) => SubSeq(q, 1, Len(p)) # p

RECURSIVE LeafPaths(_, _)
\* the paths of named segments, below prefix, at which the dynamic value iv
\* holds something that is no mapping
LeafPaths(iv, prefix) ==
    IF ~iv.nil /\ iv.dt = DynT
    THEN UNION {LeafPaths(iv.dv.m[k], Append(prefix, NamedSeg(k))) : k \in DOMAIN iv.dv.m}
    ELSE {prefix}

RECURSIVE DynAt(_, _)
\* what the dynamic value iv holds at the path p; nil if nothing
DynAt(iv, p) ==
    IF p = <<>> THEN iv
    ELSE IF ~iv.nil /\ iv.dt = DynT /\ p[1].Key \in DOMAIN iv.dv.m
    THEN DynAt(iv.dv.m[p[1].Key], Tail(p))
    ELSE NilIface

\* the target holds the last leaf of every path of the input, and nothing
\* else
Merged ==
    LET holds(paths) ==
          /\ LeafPaths(Iface(DynT, target), <<>>) = paths
          /\ \A p \in paths : DynAt(Iface(DynT, target), p) = Iface("string", LastLeaf(p))
    IN holds(InputPaths)

\* C23 as stated: once Unmarshal into a map[string]interface{} has
\* returned, it has succeeded and the target holds, in one nested mapping,
\* the last leaf of every distinct path of the input, whatever the order
\* in which the keys were assigned
C23_MergeAll == pc = "returned" => (err = "nil" /\ Merged)

\* no two different keys of the input have the same path
NoAlias ==
    LET distinct(pairs) ==
          \A i, j \in 1..Len(pairs) :
             parseKey(pairs[i].k).path = parseKey(pairs[j].k).path => pairs[i].k = pairs[j].k
    IN distinct(InputPairs)

\* C23, amended: the same for an input none of whose paths is the
\* beginning of another of its paths and no two of whose keys have the same
\* path
C23_Merge == (pc = "returned" /\ PrefixFree /\ NoAlias) => (err = "nil" /\ Merged)

\* Unmarshal of pairs for a[b][c], a[c] and a[b][d] has returned with all
\* three leaves in one mapping under a
C23_Witness ==
    /\ pc = "returned"
    /\ err = "nil"
    /\ InputPaths = {<<NamedSeg(<<"a">>), NamedSeg(<<"b">>), NamedSeg(<<"c">>)>>,
                     <<NamedSeg(<<"a">>), NamedSeg(<<"c">>)>>,
                     <<NamedSeg(<<"a">>), NamedSeg(<<"b">>), NamedSeg(<<"d">>)>>}
    /\ DOMAIN target.m = {<<"a">>}
    /\ Merged

-----------------------------------------------------------------------------
(* TypedSpec: Unmarshal of up to MaxPairs pairs into a typed mapping (of    *)
(* strings, of records, of sequences) or into a record with a sequence      *)
(* field.                                                                   *)

TypedTargets ==
    {"map[string]string", "map[string]Address", "map[string][]string",
     "map[string][]int8", "Readings", "Person"}

TypedKeys(n) ==
    CASE n = "map[string]string" -> {<<"a">>, <<"b">>}
      [] n = "map[string]Address" ->
           {<<"k", "[">> \o s_street \o <<"]">>, <<"k", "[">> \o s_city \o <<"]">>,
            <<"j", "[">> \o s_street \o <<"]">>}
      [] n = "map[string][]string" ->
           {<<"t">>, <<"t", "[", "]">>, <<"t", "[", "f", "]">>, <<"u", "[", "f", "]">>}
      [] n = "map[string][]int8" -> {<<"n">>, <<"n", "[", "]">>}
      [] n = "Readings" -> {<<"n">>, <<"n", "[", "]">>, <<"n", "[", "f", "]">>}
      [] n = "Person" -> {s_pronouns \o <<"[", "]">>, s_pronouns \o <<"[", "f", "]">>}

\* leaves: two texts, or a numeral, a text that is none and a numeral too
\* large for eight bits
TypedLeaves(n) ==
    IF n \in {"map[string][]int8", "Readings"}
    THEN {<<"1">>, <<"x">>, <<"3", "0", "0">>}
    ELSE {<<"v">>, <<"w">>}

TypedInit ==
    \E n \in TypedTargets :
       \E len \in 1..MaxPairs :
          \E ks \in [1..len -> TypedKeys(n)] :
             \E vs \in [1..len -> TypedLeaves(n)] :
                DecodeInit(n, Query([i \in 1..len |-> [k |-> ks[i], v |-> vs[i]]]))

TypedNext == UnmarshalCall \/ RangeNext \/ AssignStep \/ RangeEnd

TypedSpec == TypedInit /\ [][TypedNext]_vars

-----------------------------------------------------------------------------
(* Properties of TypedSpec *)

\* the assign call about to be made addresses a key the mapping holds
KeyPresent == ~target.nil /\ curPath[1].Key \in DOMAIN target.m

\* C24 as stated: an assign step for a key that is present in a mapping of
\* strings or of records succeeds and stores the element back: the string
\* is the new value, the record has the field of the path set to the new
\* value and its other fields as they were
C24_StoreBack ==
    [][(/\ pc = "assign"
        /\ argT \in {"map[string]string", "map[string]Address"}
        /\ KeyPresent)
       => LET stored(key, old, new) ==
                IF argT = "map[string]string" THEN new = Head(curVals)
                ELSE \A f \in 1..Len(old) :
                        new[f] = IF f = findStructField("Address", curPath[2].Key)
                                 THEN Head(curVals) ELSE old[f]
          IN /\ err' = "none"
             /\ curPath[1].Key \in DOMAIN target'.m
             /\ stored(curPath[1].Key, target.m[curPath[1].Key],
                       target'.m[curPath[1].Key])]_vars

\* Unmarshal of a=v&a=w into a map[string]string has panicked on the
\* second value, and a still holds the first
C24_Witness ==
    /\ pc = "returned"
    /\ err = "panic"
    /\ argT = "map[string]string"
    /\ data = <<"a", "=", "v", "&", "a", "=", "w">>
    /\ Len(applied) = 2
    /\ target = MapVal(<<"a">> :> <<"v">>)

\* the assign call about to be made names a sequence with its first
\* segment (the field of a record, the element of a mapping of sequences)
\* and goes on with a named segment
NamedIntoSequence ==
    /\ pc = "assign"
    /\ argT \in {"Person", "Readings", "map[string][]string"}
    /\ Len(curPath) >= 2
    /\ ~curPath[2].Index

\* C25 as stated: an assign step whose path reaches a sequence and goes on
\* with a named segment ends the call with an error, and the sequence is
\* as it was
C25_IndexOnly ==
    [][NamedIntoSequence => (pc' = "returned" /\ err' = "error" /\ target' = target)]_vars

\* Unmarshal of t[f]=v into a map[string][]string has returned nil with v
\* appended to the sequence under t
C25_Witness ==
    /\ pc = "returned"
    /\ err = "nil"
    /\ argT = "map[string][]string"
    /\ Len(applied) = 1
    /\ applied[1].path = <<NamedSeg(<<"t">>), NamedSeg(<<"f">>)>>
    /\ target = MapVal(<<"t">> :> SliceVal(<<applied[1].val>>))

\* the targets of TypedSpec that hold a typed sequence
SequenceTargets == {"Readings", "Person", "map[string][]string", "map[string][]int8"}

\* the sequence the first segment of curPath names in the target t: the
\* field of the record or the element of the mapping; Absent if there is none
Absent == [absent |-> TRUE]

SequenceAt(t) ==
    IF Kind(argT) = "map"
    THEN IF ~t.nil /\ curPath[1].Key \in DOMAIN t.m THEN t.m[curPath[1].Key] ELSE Absent
    ELSE IF findStructField(argT, curPath[1].Key) = 0 THEN Absent
    ELSE t[findStructField(argT, curPath[1].Key)]

\* C29: an assign step into a typed sequence that fails leaves the sequence
\* with the length and the contents it had: nothing is appended, and a
\* mapping gets no sequence under a key that had none
C29_NoGrowth ==
    [][(pc = "assign" /\ argT \in SequenceTargets /\ err' \in {"error", "panic"})
       => SequenceAt(target') = SequenceAt(target)]_vars

\* Unmarshal of n[]=1&n[]=x into a Readings has returned an error with one
\* element in N, and both pairs have been handed to assign
C29_Witness ==
    /\ pc = "returned"
    /\ err = "error"
    /\ argT = "Readings"
    /\ data = <<"n", "%", "5", "B", "%", "5", "D", "=", "1", "&",
                "n", "%", "5", "B", "%", "5", "D", "=", "x">>
    /\ Len(applied) = 2
    /\ ~target[1].nil
    /\ Len(target[1].e) = 1

-----------------------------------------------------------------------------
(* Properties of Spec: a dynamically typed field *)

\* C26 as stated: an assign step into a Holder, whose field Data is an
\* interface{}, succeeds; if the path ends at the field, the field holds
\* the leaf as a string, and if segments follow, it holds a mapping or a
\* sequence
C26_DynamicSlot ==
    [][(pc = "assign" /\ argT = "Holder" /\ curPath[1].Key = s_data)
       => /\ err' = "none"
          /\ IF Len(curPath) = 1
             THEN target'[1] = Iface("string", Head(curVals))
             ELSE ~target'[1].nil /\ target'[1].dt \in {DynT, "[]interface{}"}]_vars

\* Unmarshal of data=007 into a Holder has returned an error and the
\* field is nil
C26_Witness ==
    /\ pc = "returned"
    /\ err = "error"
    /\ argT = "Holder"
    /\ data = s_data \o <<"=", "0", "0", "7">>
    /\ Len(applied) = 1
    /\ target = <<NilIface>>

-----------------------------------------------------------------------------
(* NumSpec: Unmarshal of one or two pairs with numerals into a Scalars      *)
(* (I int8, U uint8, F float64) or into the Age int of a Person.            *)

\* numerals around the limits of eight bits, bare and with either sign
Numerals8 ==
    {sign \o ds :
        sign \in {<<>>, <<"-">>, <<"+">>},
        ds \in {<<"0">>, <<"7">>, <<"1", "2", "7">>, <<"1", "2", "8">>,
                <<"2", "5", "5">>, <<"2", "5", "6">>, <<"0", "0", "7">>}}

\* 2^63 - 1
MaxInt64 ==
    <<"9", "2", "2", "3", "3", "7", "2", "0", "3", "6",
      "8", "5", "4", "7", "7", "5", "8", "0", "7">>

\* 2^63 - 1, 2^63, -2^63, -2^63 - 1 and 2^64
Numerals64 ==
    {MaxInt64, Pow2(63), <<"-">> \o Pow2(63),
     <<"-", "9", "2", "2", "3", "3", "7", "2", "0", "3", "6",
       "8", "5", "4", "7", "7", "5", "8", "0", "9">>,
     Pow2(64)}

\* floats in each syntax strconv.ParseFloat reads: a decimal, exponents, a
\* hexadecimal float, digits apart by underscores, an infinity, a NaN, -0,
\* numerals of more digits than a float64 holds, one beyond the largest
\* float64, and three that are no number
FloatNumerals ==
    {<<"1", ".", "5">>, <<"1", ".", "2", "3", "e", "1", "0">>, <<"1", "E", "5">>,
     <<"0", "x", "1", "p", "-", "2">>, <<"1", "_", "0">>, <<"i", "n", "f">>,
     <<"N", "a", "N">>, <<"-", "0">>,
     <<"0", ".", "1", "2", "3", "4", "5", "6", "7", "8", "9",
       "0", "1", "2", "3", "4", "5", "6", "7", "8", "9">>,
     <<"9", "0", "0", "7", "1", "9", "9", "2", "5", "4", "7", "4", "0", "9", "9", "3">>,
     <<"1", "e", "3", "0", "9">>, <<"1", "e">>, <<"0", "x", "1">>, <<"_", "1">>}

NumInit ==
    \/ \E v \in FloatNumerals : \E first \in {<<>>, <<"7">>} :
          DecodeInit("Scalars",
                     Query((IF first = <<>> THEN <<>> ELSE <<[k |-> <<"f">>, v |-> first]>>)
                           \o <<[k |-> <<"f">>, v |-> v]>>))
    \/ \E k \in {<<"i">>, <<"u">>} : \E v \in Numerals8 :
          DecodeInit("Scalars", Query(<<[k |-> k, v |-> v]>>))
    \/ \E k1, k2 \in {<<"i">>, <<"u">>} :
          \E v1 \in {<<"7">>, <<"-", "7">>} : \E v2 \in Numerals8 :
             DecodeInit("Scalars", Query(<<[k |-> k1, v |-> v1], [k |-> k2, v |-> v2]>>))
    \/ \E v \in Numerals64 :
          DecodeInit("Person", Query(<<[k |-> s_age, v |-> <<"7">>], [k |-> s_age, v |-> v]>>))

NumNext == UnmarshalCall \/ RangeNext \/ AssignStep \/ RangeEnd

NumSpec == NumInit /\ [][NumNext]_vars

-----------------------------------------------------------------------------
(* Properties of NumSpec *)

RECURSIVE DigitsValue(_)
\* the number a sequence of digits denotes
DigitsValue(ds) ==
    IF ds = <<>> THEN 0
    ELSE 10 * DigitsValue(SubSeq(ds, 1, Len(ds) - 1)) + (PosIn(Digits, ds[Len(ds)]) - 1)

Signed(s) == Head(s) \in {"+", "-"}

\* the number a numeral of Numerals8 denotes
NumeralValue(s) ==
    IF Head(s) = "-" THEN 0 - DigitsValue(Tail(s))
    ELSE IF Head(s) = "+" THEN DigitsValue(Tail(s))
    ELSE DigitsValue(s)

\* the number an integer value of the model denotes
IntOf(v) == IF v.neg THEN 0 - DigitsValue(v.d) ELSE DigitsValue(v.d)

\* x lies in the range of an integer slot of w bits
InRange(signed, w, x) ==
    IF signed THEN 0 - 2^(w - 1) <= x /\ x <= 2^(w - 1) - 1
    ELSE 0 <= x /\ x <= 2^w - 1

\* the assign step stores in field f the value x, or fails and leaves the
\* target as it was
Coerced(fits, f, x) ==
    IF fits THEN err' = "none" /\ IntOf(target'[f]) = x /\ target'[f].d = StripZeros(target'[f].d)
    ELSE pc' = "returned" /\ err' = "error" /\ target' = target

\* the same for the 64-bit Age of a Person, whose numerals are beyond the
\* integers at hand: 2^63 - 1 and -2^63 fit, their neighbours do not
Coerced64(s) ==
    IF s \in {<<"7">>, MaxInt64, <<"-">> \o Pow2(63)}
    THEN err' = "none" /\ FormatInt(target'[2]) = s
    ELSE pc' = "returned" /\ err' = "error" /\ target' = target

\* C27 as stated: an assign step with a numeral for an integer slot (the
\* keys i and u of a Scalars, the age of a Person) of width w stores the
\* numeral's value exactly when the value lies in the range of the width,
\* and otherwise ends the call with an error and the slot as it was
C27_BoundedAll ==
    [][/\ (pc = "assign" /\ argT = "Scalars" /\ curPath[1].Key \in {<<"i">>, <<"u">>})
          => LET slot(f, s) == Coerced(InRange(f = 1, 8, NumeralValue(s)), f,
                                       NumeralValue(s))
             IN slot(findStructField(argT, curPath[1].Key), Head(curVals))
       /\ (pc = "assign" /\ argT = "Person") => Coerced64(Head(curVals))]_vars

\* C27, amended: the same, but a numeral with a sign, + or -, never fits
\* an unsigned slot, whatever its value
C27_Bounded ==
    [][/\ (pc = "assign" /\ argT = "Scalars" /\ curPath[1].Key \in {<<"i">>, <<"u">>})
          => LET slot(f, s) ==
                   Coerced(InRange(f = 1, 8, NumeralValue(s)) /\ (f = 1 \/ ~Signed(s)),
                           f, NumeralValue(s))
             IN slot(findStructField(argT, curPath[1].Key), Head(curVals))
       /\ (pc = "assign" /\ argT = "Person") => Coerced64(Head(curVals))]_vars

\* Unmarshal of i=-7&i=128 into a Scalars has failed on 128, and I is
\* still -7
C27_Witness ==
    /\ pc = "returned"
    /\ err = "error"
    /\ argT = "Scalars"
    /\ Len(applied) = 2
    /\ applied[1].val = <<"-", "7">>
    /\ applied[2].val = <<"1", "2", "8">>
    /\ applied[2].path = <<NamedSeg(<<"i">>)>>
    /\ target[1] = IntVal(TRUE, <<"7">>)

-----------------------------------------------------------------------------
(* PathSpec: renderPath called on a path of up to MaxPathLen segments, as   *)
(* the encode engine holds it (a []string, "" for the index marker), and    *)
(* parseKey called on what it returns.                                      *)

MaxPathLen == 3

\* segments: two names, the index marker, two names with a bracket
PathParts == {<<"a">>, <<"b", "c">>, <<>>, <<"a", "]">>, <<"[", "a">>}

PathInit ==
    \E len \in 1..MaxPathLen :
       \E p \in [1..len -> PathParts] :
          /\ pc = "renderPath"
          /\ arg = "nil"
          /\ argT = "nil"
          /\ data = <<>>
          /\ values = <<>>
          /\ todo = {}
          /\ curPath = <<>>
          /\ curVals = <<>>
          /\ target = NilIface
          /\ err = "none"
          /\ applied = <<>>
          /\ srcT = "[]string"
          /\ src = SliceVal(p)
          /\ out = <<>>
          /\ merr = "none"
          /\ cache = <<>>
          /\ gpc = <<>>
          /\ gtype = <<>>
          /\ gtags = <<>>
          /\ derived = <<>>

\* key := renderPath(path), handed on to parseKey
RenderPathCall ==
    /\ pc = "renderPath"
    /\ data' = renderPath(src.e)
    /\ pc' = "parseKey"
    /\ UNCHANGED <<arg, argT, values, todo, curPath, curVals, target, err, applied,
                   srcT, src, out, merr>>
    /\ CacheIdle

PathNext == RenderPathCall \/ ParseKeyCall

PathSpec == PathInit /\ [][PathNext]_vars

-----------------------------------------------------------------------------
(* Properties of PathSpec *)

\* the first segment is a name, and no name holds a bracket
Renderable(p) ==
    /\ p[1] # <<>>
    /\ \A i \in 1..Len(p) : \A j \in 1..Len(p[i]) : p[i][j] \notin {"[", "]"}

\* the path segments the strings of p stand for
SegmentsOf(p) == [i \in 1..Len(p) |-> IF p[i] = <<>> THEN IndexSeg ELSE NamedSeg(p[i])]

\* C28: renderPath writes the first segment bare, a later name as [name]
\* and a later index marker as []; and for a path whose first segment is a
\* name and whose names hold no bracket, parseKey of the rendered key
\* returns the path, segment for segment
C28_RenderParse ==
    /\ pc \in {"parseKey", "parsed"}
          => /\ SubSeq(data, 1, Len(src.e[1])) = src.e[1]
             /\ \E cut \in [1..(Len(src.e) + 1) -> 1..(Len(data) + 1)] :
                   /\ cut[1] = 1
                   /\ cut[Len(src.e) + 1] = Len(data) + 1
                   /\ \A i \in 1..Len(src.e) :
                         /\ cut[i] <= cut[i + 1]
                         /\ SubSeq(data, cut[i], cut[i + 1] - 1)
                               = IF i = 1 THEN src.e[1] ELSE <<"[">> \o src.e[i] \o <<"]">>
    /\ (pc = "parsed" /\ Renderable(src.e))
          => (err = "nil" /\ curPath = SegmentsOf(src.e))

\* the path a, [], bc has been rendered as a[][bc] and parsed back
C28_Witness ==
    /\ pc = "parsed"
    /\ src = SliceVal(<<<<"a">>, <<>>, <<"b", "c">>>>)
    /\ data = <<"a", "[", "]", "[", "b", "c", "]">>
    /\ err = "nil"
    /\ curPath = <<NamedSeg(<<"a">>), IndexSeg, NamedSeg(<<"b", "c">>)>>

====
